---- MODULE Spec2Model ----
(***************************************************************************)
(* Model of the BFV-RNS leveled SHE core (bfvrns-leveledshe.cpp) and of    *)
(* the CKKS-RNS bootstrapping wrapper (ckksrns-fhe.cpp).                   *)
(*                                                                         *)
(* Spec      : the BFV ciphertext operations applied to a caller's         *)
(*             ciphertext handles a, b, c.                                 *)
(* SpecBoot  : the life cycle of FHECKKSRNS (EvalBootstrapSetup,           *)
(*             EvalBootstrapPrecompute, EvalBootstrapKeyGen,               *)
(*             EvalBootstrap) over its members m_bootPrecomMap and         *)
(*             m_correctionFactor.                                         *)
(*                                                                         *)
(* A ring element (DCRTPoly) is abstracted to its shape (number of Q       *)
(* limbs, CRT basis, representation format) and one residue value in       *)
(* Z_ValMod; vectors are 1-based, so cv[0] of the source is cv[1] here.    *)
(***************************************************************************)
EXTENDS Integers, Sequences, FiniteSets, TLC

\* ------------------------------------------------------------------ bounds
\* number of RNS limbs of the crypto parameters (elementParams->GetParams().size())
SizeQM == 3
\* largest noiseScaleDeg an operand may have when an operation is applied
MaxDeg == 2
\* largest number of ring elements of an operand of a multiplication
MaxCtSize == 3
\* residues of a ring element are taken modulo ValMod
ValMod == 3
\* log2 of the cyclotomic order M (the ring dimension is M/2)
LogM == 5
\* number of RNS limbs of the CKKS crypto parameters (L0 of EvalBootstrap)
L0 == 3

RECURSIVE Pow(_, _)
Pow(b, e) == IF e = 0 THEN 1 ELSE b * Pow(b, e - 1)

\* cyclotomic order
CycloOrder == Pow(2, LogM)

\* a uint32_t value as its two 16-bit halves; a negative x wraps around 2^32
Uint32(x) ==
    IF x >= 0 THEN [hi |-> x \div 65536, lo |-> x % 65536]
    ELSE [hi |-> 65535 - ((-x - 1) \div 65536), lo |-> x % 65536]

\* the int32_t value a uint32_t converts to (two's complement)
Int32(u) ==
    IF u.hi >= 32768 THEN (u.hi - 65536) * 65536 + u.lo ELSE u.hi * 65536 + u.lo

Max(x, y) == IF x >= y THEN x ELSE y
Min(x, y) == IF x <= y THEN x ELSE y

\* ------------------------------------------------------ BFV: static data
MultTechs == {"HPS", "HPSPOVERQ", "HPSPOVERQLEVELED", "BEHZ"}
EncTechs == {"STANDARD", "EXTENDED"}
Handles == {"a", "b", "c"}
\* identities of CryptoParameters objects (compared by pointer in EvalMult)
ParamIds == {1, 2}
\* raw value of floor((loge - 2*depth - 16 - logExtra) / dcrtBits) at depth 0
RawLevels == -1 .. 1
\* largest slot offset of a rotation
MaxRot == 3
\* slot offsets the key map of the key tag holds a rotation key for
KeyedRotations == {-2, -1, 1, 2}

VARIABLES
    multTech,      \* cryptoParams->GetMultiplicationTechnique()
    encTech,       \* cryptoParams->GetEncryptionTechnique()
    rawLevels,     \* [BOOLEAN -> Int]: the noise estimate of FindLevelsToDrop, per keySwitch flag
    cts,           \* the caller's ciphertext handles: a is reassigned, b and c are only read
    evalKeyMap,    \* automorphism index -> evaluation key (the key map of the key tag)
    out,           \* outcome of the last operation
    fastDigits,    \* the caller's digits of the last EvalFastRotationPrecompute on a
    m_bootPrecomMap,     \* FHECKKSRNS::m_bootPrecomMap : slots -> precomputation
    m_correctionFactor,  \* FHECKKSRNS::m_correctionFactor
    bootCfg,             \* crypto context of the bootstrapping object
    setupFor,            \* slot counts EvalBootstrapSetup was called for (history)
    bootOut              \* outcome of the last bootstrapping call

bfvVars == <<multTech, encTech, rawLevels, cts, evalKeyMap, out, fastDigits>>
bootVars == <<m_bootPrecomMap, m_correctionFactor, bootCfg, setupFor, bootOut>>
vars == <<multTech, encTech, rawLevels, cts, evalKeyMap, out, fastDigits,
          m_bootPrecomMap, m_correctionFactor, bootCfg, setupFor, bootOut>>

\* ------------------------------------------------- ring elements (DCRTPoly)
Poly(l, bs, f, v) == [limbs |-> l, basis |-> bs, format |-> f, val |-> v % ValMod]

SetFormat(p, f) == [p EXCEPT !.format = f]

\* Q_l -> Q_l*R_l, exact lift; the result is in the requested format
ExpandCRTBasis(p, l, f) == Poly(l + 1, "QR", f, p.val)

\* Q_l -> P_l -> P_l*Q_l, carries the factor P/Q; keeps the (coefficient) format
FastExpandCRTBasisPloverQ(p, l) == Poly(l + 1, "QR", p.format, 2 * p.val)

\* scale by a rational constant and round into the target basis
ScaleAndRound(p, bs, l) == Poly(l + 1, bs, p.format, p.val + 1)

\* exact CRT reconstruction from R to the full basis Q
SwitchCRTBasis(p) == Poly(SizeQM, "Q", p.format, p.val)

\* Q_l -> Q: multiply by Q/Q_l and append zero limbs; format kept
ExpandCRTBasisQlHat(p, sizeQ) == Poly(sizeQ, "Q", p.format, p.val)

FastBaseConvqToBskMontgomery(p) == Poly(p.limbs, "QBsk", p.format, p.val)
FastRNSFloorq(p) == Poly(p.limbs, "Bsk", p.format, p.val + 1)
FastBaseConvSK(p) == Poly(SizeQM, "Q", p.format, p.val)

DropLastElementAndScale(p) == Poly(p.limbs - 1, p.basis, p.format, p.val + 1)

AutomorphismTransform(p, i) == Poly(p.limbs, p.basis, p.format, p.val * i)

Times(p, q) == Poly(p.limbs, p.basis, p.format, p.val * q.val)
Plus(p, q) == Poly(p.limbs, p.basis, p.format, p.val + q.val)
Minus(p, q) == Poly(p.limbs, p.basis, p.format, p.val - q.val)

\* ------------------------------------------------------------ ciphertexts
NoCt == [elems |-> <<>>, deg |-> 0, params |-> 0]
Ct(es, d, pr) == [elems |-> es, deg |-> d, params |-> pr]
CloneEmpty(c) == Ct(<<>>, c.deg, c.params)
Clone(c) == c

\* an evaluation key: the number of Q limbs it was generated over, and its two parts
EvalKeys == {[limbs |-> n, ka |-> 1, kb |-> 2] : n \in {SizeQM - 1, SizeQM}}

\* outcome of a call: what it returned, what it left in its by-reference
\* argument, the error it threw, and the steps it performed
Ok(ret, arg, tr) == [status |-> "ok", ret |-> ret, arg |-> arg, err |-> "", errArg |-> 0, trace |-> tr]
Throw(e, arg, tr) == [status |-> "throw", ret |-> NoCt, arg |-> arg, err |-> e, errArg |-> 0, trace |-> tr]
\* an error whose message carries a number
ThrowAt(e, n, arg, tr) == [status |-> "throw", ret |-> NoCt, arg |-> arg, err |-> e, errArg |-> n, trace |-> tr]

\* the trace tr has a step of the given name
HasStep(tr, step) == \E i \in 1 .. Len(tr) : tr[i][1] = step

\* ------------------------------------------------------- FindLevelsToDrop
\* the closed-form noise estimate, before clamping: it grows with the depth and
\* depends on the keySwitch flag through logExtra
LevelsEstimate(multiplicativeDepth, keySwitch) == rawLevels[keySwitch] + multiplicativeDepth

\* variant of FindLevelsToDrop that returns the estimate as it is
FindLevelsToDropUnclamped(multiplicativeDepth, keySwitch) ==
    LevelsEstimate(multiplicativeDepth, keySwitch)

FindLevelsToDrop(multiplicativeDepth, keySwitch) ==
    LET levels == LevelsEstimate(multiplicativeDepth, keySwitch)
        sizeQ == SizeQM
    IN  IF levels < 0 THEN 0
        ELSE IF levels > sizeQ - 1 THEN sizeQ - 1
        ELSE levels

\* variant of LevelIndex that stays at the top level
LevelIndexTop(sizeQ, levelsDropped) == sizeQ - 1

\* l = levelsDropped > 0 ? sizeQ - 1 - levelsDropped : sizeQ - 1
LevelIndex(sizeQ, levelsDropped) ==
    IF levelsDropped > 0 THEN sizeQ - 1 - levelsDropped ELSE sizeQ - 1

\* ---------------------------------------------------------- EvalMult core
NoPoly == [limbs |-> 0, basis |-> "", format |-> "", val |-> 0]

\* the double loop with isFirstAdd: term k (1-based) accumulates cv1[i]*cv2[j], i+j = k+1
RECURSIVE TensorAcc(_, _, _, _, _)
TensorAcc(cv1, cv2, k, i, acc) ==
    IF i > Len(cv1) THEN acc
    ELSE LET j == k + 1 - i
         IN  IF j \in 1 .. Len(cv2)
             THEN TensorAcc(cv1, cv2, k, i + 1,
                            IF acc = NoPoly THEN Times(cv1[i], cv2[j])
                            ELSE Plus(acc, Times(cv1[i], cv2[j])))
             ELSE TensorAcc(cv1, cv2, k, i + 1, acc)

\* variant of TensorProduct without the terms past the size of the first operand
TensorProductShort(cv1, cv2) ==
    [k \in 1 .. Len(cv1) |-> TensorAcc(cv1, cv2, k, 1, NoPoly)]

TensorProduct(cv1, cv2) ==
    [k \in 1 .. (Len(cv1) + Len(cv2) - 1) |-> TensorAcc(cv1, cv2, k, 1, NoPoly)]

\* the product of two operands of size 2 as the USE_KARATSUBA build computes it:
\* cvMult[1] = (cv1[0] + cv1[1]) * (cv2[0] + cv2[1]) - cvMult[2] - cvMult[0]
KaratsubaProduct(cv1, cv2) ==
    LET a == Times(cv1[1], cv2[1])
        b == Times(cv1[2], cv2[2])
    IN  << a, Minus(Minus(Times(Plus(cv1[1], cv1[2]), Plus(cv2[1], cv2[2])), b), a), b >>

\* which of the four branches of EvalMult / EvalSquare is taken
MultBranch(sizeQ) ==
    IF multTech = "HPS" THEN "HPS"
    ELSE IF multTech = "HPSPOVERQ" \/ (multTech = "HPSPOVERQLEVELED" /\ sizeQ < SizeQM) THEN "POVERQ"
    ELSE IF multTech = "HPSPOVERQLEVELED" /\ sizeQ = SizeQM THEN "LEVELED"
    ELSE "BEHZ"

\* the level index l the branch works at; depth = max(c1depth, c2depth) - 1
MultLevel(sizeQ, depth) ==
    IF MultBranch(sizeQ) = "LEVELED" THEN LevelIndex(sizeQ, FindLevelsToDrop(depth, FALSE))
    ELSE IF MultBranch(sizeQ) = "POVERQ" THEN sizeQ - 1
    ELSE 0

\* conversion of the elements of the first operand
ConvertFirst(p, sizeQ, l) ==
    CASE MultBranch(sizeQ) = "HPS" -> ExpandCRTBasis(p, SizeQM - 1, "EVALUATION")
      [] MultBranch(sizeQ) = "POVERQ" -> ExpandCRTBasis(p, sizeQ - 1, "EVALUATION")
      [] MultBranch(sizeQ) = "LEVELED" ->
            LET c == SetFormat(p, "COEFFICIENT")
                d == IF l < sizeQ - 1 THEN ScaleAndRound(c, "Q", l) ELSE c
            IN  ExpandCRTBasis(d, l, "EVALUATION")
      [] OTHER -> SetFormat(FastBaseConvqToBskMontgomery(p), "EVALUATION")

\* conversion of the elements of the second operand
ConvertSecond(p, sizeQ, l) ==
    CASE MultBranch(sizeQ) = "HPS" -> ExpandCRTBasis(p, SizeQM - 1, "EVALUATION")
      [] MultBranch(sizeQ) = "POVERQ" ->
            SetFormat(FastExpandCRTBasisPloverQ(SetFormat(p, "COEFFICIENT"), sizeQ - 1), "EVALUATION")
      [] MultBranch(sizeQ) = "LEVELED" ->
            SetFormat(FastExpandCRTBasisPloverQ(SetFormat(p, "COEFFICIENT"), l), "EVALUATION")
      [] OTHER -> SetFormat(FastBaseConvqToBskMontgomery(p), "EVALUATION")

\* scale-down of one term of the tensor product, and re-expansion to Q
ScaleDown(p, sizeQ, l) ==
    LET c == SetFormat(p, "COEFFICIENT")
    IN  CASE MultBranch(sizeQ) = "HPS" -> SwitchCRTBasis(ScaleAndRound(c, "R", SizeQM - 1))
          [] MultBranch(sizeQ) = "POVERQ" -> ScaleAndRound(c, "Q", sizeQ - 1)
          [] MultBranch(sizeQ) = "LEVELED" ->
                LET r == ScaleAndRound(c, "Q", l)
                IN  IF l < sizeQ - 1 THEN ExpandCRTBasisQlHat(r, sizeQ) ELSE r
          [] OTHER -> FastBaseConvSK(FastRNSFloorq(c))

\* the steps of one multiplication, in order, with the level index each uses
MultTrace(sizeQ, depth, l) ==
    CASE MultBranch(sizeQ) = "HPS" -> << <<"ExpandCRTBasis", SizeQM - 1>>, <<"Tensor", SizeQM - 1>>,
                                        <<"ScaleAndRound", SizeQM - 1>>, <<"SwitchCRTBasis", SizeQM - 1>> >>
      [] MultBranch(sizeQ) = "POVERQ" -> << <<"ExpandCRTBasis", sizeQ - 1>>, <<"FastExpandCRTBasisPloverQ", sizeQ - 1>>,
                                           <<"Tensor", sizeQ - 1>>, <<"ScaleAndRound", sizeQ - 1>> >>
      [] MultBranch(sizeQ) = "LEVELED" ->
            << <<"FindLevelsToDrop", FindLevelsToDrop(depth, FALSE)>> >>
            \o (IF l < sizeQ - 1 THEN << <<"DropToQl", l>> >> ELSE << >>)
            \o << <<"ExpandCRTBasis", l>>, <<"FastExpandCRTBasisPloverQ", l>>,
                  <<"Tensor", l>>, <<"ScaleAndRound", l>> >>
            \o (IF l < sizeQ - 1 THEN << <<"ExpandCRTBasisQlHat", l>> >> ELSE << >>)
      [] OTHER -> << <<"FastBaseConvqToBskMontgomery", 0>>, <<"Tensor", 0>>,
                     <<"FastRNSFloorq", 0>>, <<"FastBaseConvSK", 0>> >>

\* variant of SameCryptoParameters that accepts any pair of operands
AnyCryptoParameters(ciphertext1, ciphertext2) == TRUE

\* ciphertext1->GetCryptoParameters() == ciphertext2->GetCryptoParameters()
SameCryptoParameters(ciphertext1, ciphertext2) == ciphertext1.params = ciphertext2.params

EvalMult(ciphertext1, ciphertext2) ==
    IF ~SameCryptoParameters(ciphertext1, ciphertext2)
    THEN Throw("crypto parameters are not the same", ciphertext1, << >>)
    ELSE LET sizeQ == ciphertext1.elems[1].limbs
             depth == Max(ciphertext1.deg, ciphertext2.deg) - 1
             l == MultLevel(sizeQ, depth)
             cv1 == [i \in 1 .. Len(ciphertext1.elems) |-> ConvertFirst(ciphertext1.elems[i], sizeQ, l)]
             cv2 == [i \in 1 .. Len(ciphertext2.elems) |-> ConvertSecond(ciphertext2.elems[i], sizeQ, l)]
             prod == TensorProduct(cv1, cv2)
             cvMult == [k \in 1 .. Len(prod) |-> ScaleDown(prod[k], sizeQ, l)]
         IN  Ok(Ct(cvMult, Max(ciphertext1.deg, ciphertext2.deg) + 1, ciphertext1.params),
                ciphertext1, MultTrace(sizeQ, depth, l))

\* ------------------------------------------------------------- EvalSquare
\* variant of SquareAcc that adds an off-diagonal product once
RECURSIVE SquareAccOnce(_, _, _, _)
SquareAccOnce(cv, k, i, acc) ==
    IF i > Len(cv) THEN acc
    ELSE LET j == k + 1 - i
         IN  IF j \in i .. Len(cv)
             THEN LET cvtemp == Times(cv[i], cv[j])
                  IN  SquareAccOnce(cv, k, i + 1, IF acc = NoPoly THEN cvtemp ELSE Plus(acc, cvtemp))
             ELSE SquareAccOnce(cv, k, i + 1, acc)

\* the half loop j >= i of the HPS and BEHZ techniques: an off-diagonal product
\* cvtemp is added twice
RECURSIVE SquareAcc(_, _, _, _)
SquareAcc(cv, k, i, acc) ==
    IF i > Len(cv) THEN acc
    ELSE LET j == k + 1 - i
         IN  IF j \in i .. Len(cv)
             THEN LET cvtemp == Times(cv[i], cv[j])
                      once == IF acc = NoPoly THEN cvtemp ELSE Plus(acc, cvtemp)
                  IN  SquareAcc(cv, k, i + 1, IF j = i THEN once ELSE Plus(once, cvtemp))
             ELSE SquareAcc(cv, k, i + 1, acc)

SquareProduct(cv, cvPoverQ) ==
    IF multTech \in {"HPS", "BEHZ"}
    THEN [k \in 1 .. (2 * Len(cv) - 1) |-> SquareAcc(cv, k, 1, NoPoly)]
    ELSE [k \in 1 .. (2 * Len(cv) - 1) |-> TensorAcc(cv, cvPoverQ, k, 1, NoPoly)]

EvalSquare(ciphertext) ==
    LET sizeQ == ciphertext.elems[1].limbs
        depth == ciphertext.deg - 1
        l == MultLevel(sizeQ, depth)
        cv == [i \in 1 .. Len(ciphertext.elems) |-> ConvertFirst(ciphertext.elems[i], sizeQ, l)]
        cvPoverQ == [i \in 1 .. Len(ciphertext.elems) |-> ConvertSecond(ciphertext.elems[i], sizeQ, l)]
        prod == SquareProduct(cv, cvPoverQ)
        cvSquare == [k \in 1 .. Len(prod) |-> ScaleDown(prod[k], sizeQ, l)]
    IN  Ok(Ct(cvSquare, ciphertext.deg + 1, ciphertext.params), ciphertext, MultTrace(sizeQ, depth, l))

\* -------------------------------------------------------- RelinearizeCore
\* algo->KeySwitchCore(a, evalKey): fails when the key does not cover the limbs
\* of the element; otherwise returns the pair (b, a) in EVALUATION format over
\* the limbs of the element
KeySwitchFails(p, evalKey) == p.limbs > evalKey.limbs

KeySwitchCore(p, evalKey) ==
    << Poly(p.limbs, "Q", "EVALUATION", p.val * evalKey.kb),
       Poly(p.limbs, "Q", "EVALUATION", p.val * evalKey.ka) >>

IsLeveledMax(sizeQ) == multTech = "HPSPOVERQLEVELED" /\ SizeQM = sizeQ

\* variant of Resize that keeps every element
ResizeKeepsAll(cv, n) == cv

\* cv.resize(n)
Resize(cv, n) == [i \in 1 .. n |-> cv[i]]

\* variant of ExpandKeySwitched that leaves the pair over the reduced basis
ExpandSkipped(ks, sizeQ) == ks

\* the pair returned by KeySwitchCore, expanded back to sizeQ limbs when the
\* input was scaled down to level l
ExpandKeySwitched(ks, sizeQ) ==
    IF IsLeveledMax(sizeQ)
    THEN << ExpandCRTBasisQlHat(ks[1], sizeQ), ExpandCRTBasisQlHat(ks[2], sizeQ) >>
    ELSE ks

\* variant of sel that always selects the second element
selSecond(isKeySwitch) == 2

\* size_t sel = 1 + !isKeySwitch, as a position counted from 1
sel(isKeySwitch) == 1 + (IF isKeySwitch THEN 0 ELSE 1) + 1

RelinearizeCore(ciphertext, evalKey) ==
    LET cv == ciphertext.elems
        isKeySwitch == (Len(cv) = 2)
        sizeQ == cv[1].limbs
        levelsDropped == FindLevelsToDrop(ciphertext.deg - 1, isKeySwitch)
        l == IF IsLeveledMax(sizeQ) THEN sizeQ - 1 - levelsDropped ELSE 0
        scaled == IF IsLeveledMax(sizeQ)
                  THEN ScaleAndRound(SetFormat(cv[sel(isKeySwitch)], "COEFFICIENT"), "Q", l)
                  ELSE cv[sel(isKeySwitch)]
        cvsel == SetFormat(scaled, "EVALUATION")
        cvA == [cv EXCEPT ![sel(isKeySwitch)] = cvsel]
        tr == (IF IsLeveledMax(sizeQ)
               THEN << <<"FindLevelsToDrop", levelsDropped>>, <<"ScaleAndRound", l>> >> ELSE << >>)
              \o << <<"KeySwitchCore", cvsel.limbs - 1>> >>
    IN  IF KeySwitchFails(cvsel, evalKey)
        THEN Throw("key switching failed", [ciphertext EXCEPT !.elems = cvA], tr)
        ELSE LET ks == KeySwitchCore(cvsel, evalKey)
                 ab == ExpandKeySwitched(ks, sizeQ)
                 cv0 == Plus(SetFormat(cvA[1], "EVALUATION"), ab[1])
                 cv1 == IF isKeySwitch THEN ab[2]
                        ELSE Plus(SetFormat(cvA[2], "EVALUATION"), ab[2])
                 cvB == [cvA EXCEPT ![1] = cv0, ![2] = cv1]
             IN  Ok(NoCt, [ciphertext EXCEPT !.elems = Resize(cvB, 2)],
                    tr \o (IF IsLeveledMax(sizeQ) THEN << <<"ExpandCRTBasisQlHat", l>> >> ELSE << >>))

\* ----------------------------------------------- keyed and in-place forms
\* EvalMult(ciphertext1, ciphertext2, evalKey): the product is a local value
EvalMultKeyed(ciphertext1, ciphertext2, evalKey) ==
    LET m == EvalMult(ciphertext1, ciphertext2)
    IN  IF m.status = "throw" THEN m
        ELSE LET r == RelinearizeCore(m.ret, evalKey)
             IN  IF r.status = "throw" THEN Throw(r.err, ciphertext1, m.trace \o r.trace)
                 ELSE Ok(r.arg, ciphertext1, m.trace \o r.trace)

\* EvalMultInPlace: ciphertext1 is a reference to the caller's handle, assigned
\* the product before RelinearizeCore runs
EvalMultInPlace(ciphertext1, ciphertext2, evalKey) ==
    LET m == EvalMult(ciphertext1, ciphertext2)
    IN  IF m.status = "throw" THEN m
        ELSE LET r == RelinearizeCore(m.ret, evalKey)
             IN  IF r.status = "throw" THEN Throw(r.err, r.arg, m.trace \o r.trace)
                 ELSE Ok(NoCt, r.arg, m.trace \o r.trace)

EvalSquareKeyed(ciphertext, evalKey) ==
    LET m == EvalSquare(ciphertext)
        r == RelinearizeCore(m.ret, evalKey)
    IN  IF r.status = "throw" THEN Throw(r.err, ciphertext, m.trace \o r.trace)
        ELSE Ok(r.arg, ciphertext, m.trace \o r.trace)

EvalSquareInPlace(ciphertext, evalKey) ==
    LET m == EvalSquare(ciphertext)
        r == RelinearizeCore(m.ret, evalKey)
    IN  IF r.status = "throw" THEN Throw(r.err, r.arg, m.trace \o r.trace)
        ELSE Ok(NoCt, r.arg, m.trace \o r.trace)

\* ------------------------------------------------------- EvalAutomorphism
\* evalKeyMap.at(i) throws std::out_of_range when i has no key
EvalAutomorphism(ciphertext, i, keyMap) ==
    IF i \notin DOMAIN keyMap
    THEN Throw("map::at", ciphertext, << >>)
    ELSE LET result == Clone(ciphertext)
             r == RelinearizeCore(result, keyMap[i])
         IN  IF r.status = "throw" THEN Throw(r.err, ciphertext, r.trace)
             ELSE LET rcv == r.arg.elems
                      rcvT == [rcv EXCEPT ![1] = AutomorphismTransform(rcv[1], i),
                                          ![2] = AutomorphismTransform(rcv[2], i)]
                  IN  Ok([r.arg EXCEPT !.elems = rcvT], ciphertext, r.trace)

\* --------------------------------------------------------- fast rotation
\* the inverse of a modulo m
ModInverse(a, m) == CHOOSE x \in 1 .. m - 1 : (a * x) % m = 1

\* FindAutomorphismIndex2n(int32_t i, uint32_t m): the power-of-5 generator of
\* the power-of-two cyclotomic, 5^i mod m, with the inverse of 5 for i < 0
FindAutomorphismIndex2n(i, m) ==
    IF i >= 0 THEN Pow(5, i) % m ELSE Pow(ModInverse(5, m), -i) % m

\* variant of FindAutomorphismIndex that loses the sign of the index
FindAutomorphismIndexMagnitude(index, m) ==
    FindAutomorphismIndex2n(IF index < 0 THEN -index ELSE index, m)

\* FindAutomorphismIndex(uint32_t index, uint32_t m): the slot offset arrives
\* as a uint32_t and is handed to FindAutomorphismIndex2n as an int32_t
FindAutomorphismIndex(index, m) == FindAutomorphismIndex2n(Int32(Uint32(index)), m)

\* the digit decomposition is kept as the element it was computed from
EvalFastRotationPrecompute(ciphertext) ==
    LET sizeQ == ciphertext.elems[1].limbs
    IN  IF ~IsLeveledMax(sizeQ)
        THEN ciphertext.elems[2]
        ELSE LET levelsDropped == FindLevelsToDrop(ciphertext.deg - 1, TRUE)
                 l == LevelIndex(sizeQ, levelsDropped)
                 c1 == ScaleAndRound(SetFormat(ciphertext.elems[2], "COEFFICIENT"), "Q", l)
             IN  SetFormat(c1, "EVALUATION")

\* the steps of EvalFastRotationPrecompute, with the level index each uses
EvalFastRotationPrecomputeTrace(ciphertext) ==
    LET sizeQ == ciphertext.elems[1].limbs
        levelsDropped == FindLevelsToDrop(ciphertext.deg - 1, TRUE)
    IN  IF ~IsLeveledMax(sizeQ) THEN << <<"EvalKeySwitchPrecomputeCore", sizeQ - 1>> >>
        ELSE << <<"FindLevelsToDrop", levelsDropped>>,
                <<"ScaleAndRound", LevelIndex(sizeQ, levelsDropped)>>,
                <<"EvalKeySwitchPrecomputeCore", LevelIndex(sizeQ, levelsDropped)>> >>

\* variant of DigitsAfterFastRotation for elemParams taken as the shared pointer
\* of the digits: PopLastParam then shortens the digits themselves
DigitsParamsShared(digits) == [digits EXCEPT !.limbs = @ - 1]

\* elemParams is a copy of the parameters of the digits, so popping the P moduli
\* from it leaves the digits as they were
DigitsAfterFastRotation(digits) == digits

\* variant of KeyNotFound whose message carries the rotation index
KeyNotFoundNamingRotation(index, autoIndex, ciphertext) ==
    ThrowAt("EvalKey for index is not found", index, ciphertext, << >>)

\* OPENFHE_THROW("EvalKey for index [" + std::to_string(autoIndex) + "] is not found.")
KeyNotFound(index, autoIndex, ciphertext) ==
    ThrowAt("EvalKey for index is not found", autoIndex, ciphertext, << >>)

EvalFastRotation(ciphertext, index, m, digits, keyMap) ==
    IF index = 0 THEN Ok(Clone(ciphertext), ciphertext, << >>)
    ELSE LET autoIndex == FindAutomorphismIndex(index, m)
         IN  IF autoIndex \notin DOMAIN keyMap
             THEN KeyNotFound(index, autoIndex, ciphertext)
             ELSE IF KeySwitchFails(digits, keyMap[autoIndex])
             THEN Throw("key switching failed", ciphertext, << <<"EvalFastKeySwitchCore", digits.limbs - 1>> >>)
             ELSE LET cv == ciphertext.elems
                      sizeQ == cv[1].limbs
                      l == digits.limbs - 1
                      ks == KeySwitchCore(digits, keyMap[autoIndex])
                      ba == IF IsLeveledMax(sizeQ)
                            THEN << ExpandCRTBasisQlHat(ks[1], sizeQ), ExpandCRTBasisQlHat(ks[2], sizeQ) >>
                            ELSE ks
                      ba0 == AutomorphismTransform(Plus(ba[1], cv[1]), autoIndex)
                      ba1 == AutomorphismTransform(ba[2], autoIndex)
                  IN  Ok([Clone(ciphertext) EXCEPT !.elems = <<ba0, ba1>>], ciphertext,
                         << <<"EvalFastKeySwitchCore", l>> >>
                         \o (IF IsLeveledMax(sizeQ) THEN << <<"ExpandCRTBasisQlHat", l>> >> ELSE << >>))

\* ---------------------------------------------------------------- Compress
RECURSIVE DropLevels(_, _)
DropLevels(cv, levels) ==
    IF levels = 0 THEN cv
    ELSE DropLevels([i \in 1 .. Len(cv) |-> DropLastElementAndScale(cv[i])], levels - 1)

\* levels = sizeQl - towersLeft is unsigned: for towersLeft > sizeQl it wraps and
\* the loop runs past the last limb and the precomputed tables (no result)
Compress(ciphertext, towersLeft) ==
    IF multTech \in {"BEHZ", "HPS"}
    THEN {Throw("BFV Compress is not currently supported for BEHZ or HPS", ciphertext, << >>)}
    ELSE IF encTech = "EXTENDED"
    THEN {Throw("BFV Compress is not currently supported for the EXTENDED encryption method", ciphertext, << >>)}
    ELSE LET sizeQl == ciphertext.elems[1].limbs
         IN  IF towersLeft > sizeQl
             THEN {[Throw("out of range", ciphertext, << >>) EXCEPT !.status = st] : st \in {"throw", "crash"}}
             ELSE {Ok([ciphertext EXCEPT !.elems = DropLevels(ciphertext.elems, sizeQl - towersLeft)],
                      ciphertext, << <<"DropLastElementAndScale", sizeQl - towersLeft>> >>)}

\* ------------------------------------------------ BFV: the state machine
\* a fresh ciphertext: two elements over all limbs of Q, in EVALUATION format
Fresh(v0, v1, pr) ==
    Ct(<< Poly(SizeQM, "Q", "EVALUATION", v0), Poly(SizeQM, "Q", "EVALUATION", v1) >>, 1, pr)

NoOut == [op |-> "none", args |-> << >>, idx |-> 0, pre |-> [h \in Handles |-> NoCt], res |-> Ok(NoCt, NoCt, << >>)]

\* the record of a call: its name, its ciphertext arguments, its index argument
\* (0 when it has none), the caller's ciphertexts before it, and its outcome
OutRec(opName, args, idx, o) == [op |-> opName, args |-> args, idx |-> idx, pre |-> cts, res |-> o]

\* no digits precomputed for the ciphertext a holds
NoDigits == NoPoly

\* the caller's digits belong to the ciphertext they were computed from: they are
\* dropped when a is assigned another ciphertext
DigitsKept == fastDigits' = IF cts'["a"] = cts["a"] THEN fastDigits ELSE NoDigits

InitBFV ==
    /\ multTech \in MultTechs
    /\ encTech \in EncTechs
    /\ rawLevels \in [BOOLEAN -> RawLevels]
    /\ rawLevels[TRUE] \in {rawLevels[FALSE] - 1, rawLevels[FALSE]}
    /\ (multTech # "HPSPOVERQLEVELED" => rawLevels = [k \in BOOLEAN |-> 0])
    /\ cts = [h \in Handles |-> IF h = "a" THEN Fresh(1, 2, 1)
                                ELSE IF h = "b" THEN Fresh(2, 1, 1) ELSE Fresh(2, 2, 2)]
    /\ evalKeyMap = [i \in {FindAutomorphismIndex(k, CycloOrder) : k \in KeyedRotations} |->
                         [limbs |-> IF i = FindAutomorphismIndex(2, CycloOrder) THEN SizeQM - 1 ELSE SizeQM,
                          ka |-> 1, kb |-> 2]]
    /\ out = NoOut
    /\ fastDigits = NoDigits

\* slot offsets of the rotations the actions request
Rotations == -MaxRot .. MaxRot

\* a ciphertext a multiplication may be applied to
Usable(h) == cts[h].deg <= MaxDeg /\ Len(cts[h].elems) <= MaxCtSize

\* a ciphertext has at least its two canonical elements
IsCiphertext(h) == Len(cts[h].elems) >= 2

SameLevel(h1, h2) == cts[h1].elems[1].limbs = cts[h2].elems[1].limbs

\* x = op(a, ...): the caller keeps the returned ciphertext in a (keep) or in a temporary
ReturnedAt(opName, args, idx, keep, o) ==
    /\ cts' = [cts EXCEPT !["a"] = IF keep /\ o.status = "ok" THEN o.ret ELSE @]
    /\ out' = OutRec(opName, args, idx, o)
    /\ DigitsKept
    /\ UNCHANGED <<multTech, encTech, rawLevels, evalKeyMap>>
    /\ UNCHANGED bootVars

Returned(opName, args, keep, o) ==
    /\ cts' = [cts EXCEPT !["a"] = IF keep /\ o.status = "ok" THEN o.ret ELSE @]
    /\ out' = OutRec(opName, args, 0, o)
    /\ DigitsKept
    /\ UNCHANGED <<multTech, encTech, rawLevels, evalKeyMap>>
    /\ UNCHANGED bootVars

\* op(a, ...) with a passed by reference: a is whatever the call left in it
InPlace(opName, args, o) ==
    /\ cts' = [cts EXCEPT !["a"] = o.arg]
    /\ out' = OutRec(opName, args, 0, o)
    /\ DigitsKept
    /\ UNCHANGED <<multTech, encTech, rawLevels, evalKeyMap>>
    /\ UNCHANGED bootVars

EvalMultAct ==
    \E h2 \in Handles, keep \in BOOLEAN :
        /\ Usable("a") /\ Usable(h2) /\ SameLevel("a", h2)
        /\ Returned("EvalMult", <<"a", h2>>, keep, EvalMult(cts["a"], cts[h2]))

EvalSquareAct ==
    \E keep \in BOOLEAN :
        /\ Usable("a")
        /\ Returned("EvalSquare", <<"a">>, keep, EvalSquare(cts["a"]))

EvalMultKeyedAct ==
    \E h2 \in Handles, k \in EvalKeys :
        /\ Usable("a") /\ Usable(h2) /\ SameLevel("a", h2)
        /\ Returned("EvalMultKeyed", <<"a", h2>>, FALSE, EvalMultKeyed(cts["a"], cts[h2], k))

EvalMultInPlaceAct ==
    \E h2 \in Handles, k \in EvalKeys :
        /\ Usable("a") /\ Usable(h2) /\ SameLevel("a", h2)
        /\ InPlace("EvalMultInPlace", <<"a", h2>>, EvalMultInPlace(cts["a"], cts[h2], k))

EvalSquareKeyedAct ==
    \E k \in EvalKeys :
        /\ Usable("a")
        /\ Returned("EvalSquareKeyed", <<"a">>, FALSE, EvalSquareKeyed(cts["a"], k))

EvalSquareInPlaceAct ==
    \E k \in EvalKeys :
        /\ Usable("a")
        /\ InPlace("EvalSquareInPlace", <<"a">>, EvalSquareInPlace(cts["a"], k))

RelinearizeCoreAct ==
    \E k \in EvalKeys :
        /\ IsCiphertext("a")
        /\ InPlace("RelinearizeCore", <<"a">>, RelinearizeCore(cts["a"], k))

EvalAutomorphismAct ==
    \E index \in 1 .. 3 :
        /\ IsCiphertext("a")
        /\ ReturnedAt("EvalAutomorphism", <<"a">>, FindAutomorphismIndex(index, CycloOrder), FALSE,
                       EvalAutomorphism(cts["a"], FindAutomorphismIndex(index, CycloOrder), evalKeyMap))

\* digits = EvalFastRotationPrecompute(a): the caller keeps the digits
EvalFastRotationPrecomputeAct ==
    /\ IsCiphertext("a")
    /\ fastDigits' = EvalFastRotationPrecompute(cts["a"])
    /\ out' = OutRec("EvalFastRotationPrecompute", <<"a">>, 0,
                     Ok(NoCt, cts["a"], EvalFastRotationPrecomputeTrace(cts["a"])))
    /\ UNCHANGED <<multTech, encTech, rawLevels, cts, evalKeyMap>>
    /\ UNCHANGED bootVars

\* EvalFastRotation(a, index, M, digits) with the digits the caller holds; the
\* result goes to a temporary
EvalFastRotationAct ==
    \E index \in Rotations :
        /\ IsCiphertext("a")
        /\ fastDigits # NoDigits
        /\ LET o == EvalFastRotation(cts["a"], index, CycloOrder, fastDigits, evalKeyMap)
           IN  /\ out' = OutRec("EvalFastRotation", <<"a">>, index, o)
               /\ fastDigits' = IF HasStep(o.trace, "EvalFastKeySwitchCore")
                                 THEN DigitsAfterFastRotation(fastDigits) ELSE fastDigits
        /\ UNCHANGED <<multTech, encTech, rawLevels, cts, evalKeyMap>>
        /\ UNCHANGED bootVars

CompressAct ==
    \E towersLeft \in 1 .. SizeQM, keep \in BOOLEAN :
        \E o \in Compress(cts["a"], towersLeft) :
            /\ cts' = [cts EXCEPT !["a"] = IF keep /\ o.status = "ok" THEN o.ret ELSE @]
            /\ out' = OutRec("Compress", <<"a">>, towersLeft, o)
            /\ DigitsKept
            /\ UNCHANGED <<multTech, encTech, rawLevels, evalKeyMap>>
            /\ UNCHANGED bootVars

NextBFV ==
    \/ EvalMultAct
    \/ EvalSquareAct
    \/ EvalMultKeyedAct
    \/ EvalMultInPlaceAct
    \/ EvalSquareKeyedAct
    \/ EvalSquareInPlaceAct
    \/ RelinearizeCoreAct
    \/ EvalAutomorphismAct
    \/ EvalFastRotationPrecomputeAct
    \/ EvalFastRotationAct
    \/ CompressAct

\* placeholders of the bootstrapping object while the BFV operations run
BootIdle ==
    /\ m_bootPrecomMap = << >>
    /\ m_correctionFactor = 0
    /\ bootCfg = [ksTech |-> "HYBRID", scalTech |-> "FIXEDMANUAL", compositeDegree |-> 1, deg |-> 9]
    /\ setupFor = {}
    /\ bootOut = [op |-> "none", status |-> "ok"]

Init == InitBFV /\ BootIdle

Next == NextBFV

Spec == Init /\ [][Next]_vars

\* ------------------------------------------------------- BFV: properties
\* the ciphertext the last operation produced: a returned value, or the
\* by-reference argument of an in-place form
InPlaceOps == {"EvalMultInPlace", "EvalSquareInPlace", "RelinearizeCore"}
Produced == IF out.op \in InPlaceOps THEN out.res.arg ELSE out.res.ret
Succeeded(ops) == out.op \in ops /\ out.res.status = "ok"

\* all ring elements of a ciphertext have the same limb count and format
Uniform(c) ==
    \A i, j \in 1 .. Len(c.elems) :
        c.elems[i].limbs = c.elems[j].limbs /\ c.elems[i].format = c.elems[j].format

\* C1: if a ciphertext operation throws, every ciphertext the caller passed in is
\* still what it was before the call (same elements, same size, same noiseScaleDeg).
C1_InputsUntouchedOnThrow ==
    (out.op \in {"EvalMult", "EvalSquare", "EvalMultKeyed", "EvalSquareKeyed", "EvalMultInPlace",
                 "EvalSquareInPlace", "EvalAutomorphism", "EvalFastRotation", "Compress"}
     /\ out.res.status = "throw")
    => \A h \in Handles : cts[h] = out.pre[h]

\* EvalMultInPlace threw inside RelinearizeCore and the caller's ciphertext1 is the product
C1_Witness ==
    /\ out.op = "EvalMultInPlace"
    /\ out.res.status = "throw"
    /\ HasStep(out.res.trace, "KeySwitchCore")
    /\ Len(out.pre["a"].elems) = 2
    /\ Len(cts["a"].elems) = 3
    /\ cts["a"].deg = out.pre["a"].deg + 1

\* C11: EvalFastRotation by a non-zero index whose automorphism index has no key
\* in the key map fails with the key-not-found error naming that automorphism
\* index, before any key switching, and returns nothing; EvalAutomorphism for an
\* index absent from the supplied key map returns no ciphertext either.
C11_MissingKeyFails ==
    /\ (/\ out.op = "EvalFastRotation" /\ out.idx # 0
        /\ FindAutomorphismIndex(out.idx, CycloOrder) \notin DOMAIN evalKeyMap)
       => /\ out.res.status = "throw"
          /\ out.res.err = "EvalKey for index is not found"
          /\ out.res.errArg = FindAutomorphismIndex(out.idx, CycloOrder)
          /\ out.res.trace = << >>
          /\ out.res.ret = NoCt
    /\ (out.op = "EvalAutomorphism" /\ out.idx \notin DOMAIN evalKeyMap)
       => /\ out.res.status = "throw"
          /\ out.res.ret = NoCt
          /\ ~HasStep(out.res.trace, "KeySwitchCore")

\* a fast rotation by 3, whose automorphism index 5^3 mod M has no key
C11_Witness ==
    /\ out.op = "EvalFastRotation"
    /\ out.idx = 3
    /\ out.res.status = "throw"
    /\ out.res.errArg = FindAutomorphismIndex(3, CycloOrder)
    /\ out.res.errArg \notin DOMAIN evalKeyMap

\* C13: EvalFastRotation leaves the input ciphertext and the digits as they were,
\* so after any number of rotations the digits the caller holds are still those
\* of EvalFastRotationPrecompute on the input, and each rotation returns what it
\* returns with freshly precomputed digits; a rotation by 0 returns a clone.
C13_FastRotationKeepsDigits ==
    out.op = "EvalFastRotation"
    => /\ cts = out.pre
       /\ fastDigits = EvalFastRotationPrecompute(out.pre["a"])
       /\ out.res = EvalFastRotation(out.pre["a"], out.idx, CycloOrder,
                                     EvalFastRotationPrecompute(out.pre["a"]), evalKeyMap)
       /\ out.idx = 0 => (out.res.status = "ok" /\ out.res.ret = out.pre["a"])

\* a rotation by 1 under HPSPOVERQLEVELED whose digits were scaled down to fewer limbs
C13_Witness ==
    /\ out.op = "EvalFastRotation"
    /\ out.idx = 1
    /\ out.res.status = "ok"
    /\ multTech = "HPSPOVERQLEVELED"
    /\ fastDigits.limbs < SizeQM
    /\ out.res.ret.elems[1].limbs = SizeQM

\* the level-indexed steps of a trace: all but the FindLevelsToDrop step
LevelSteps(tr) == {i \in 1 .. Len(tr) : tr[i][1] # "FindLevelsToDrop"}

\* C14: in a call of EvalMult, EvalSquare, RelinearizeCore, EvalFastRotationPrecompute
\* or EvalFastRotation under HPSPOVERQLEVELED on a ciphertext at the maximum level,
\* FindLevelsToDrop runs once and first, every level-indexed step uses the same
\* index l = sizeQ - 1 - levelsDropped (for EvalFastRotation the index of the
\* digits of EvalFastRotationPrecompute), and l is in [0, sizeQ - 1].
C14_OneLevelIndexPerCall ==
    (/\ out.op \in {"EvalMult", "EvalSquare", "RelinearizeCore", "EvalFastRotationPrecompute",
                    "EvalFastRotation"}
     /\ multTech = "HPSPOVERQLEVELED"
     /\ out.pre["a"].elems[1].limbs = SizeQM
     /\ out.res.trace # << >>)
    => LET tr == out.res.trace
           sizeQ == out.pre["a"].elems[1].limbs
           l == tr[Len(tr)][2]
       IN  /\ \A i \in LevelSteps(tr) : tr[i][2] = l
           /\ l \in 0 .. sizeQ - 1
           /\ \A i \in 1 .. Len(tr) : tr[i][1] = "FindLevelsToDrop" => i = 1
           /\ IF out.op = "EvalFastRotation"
              THEN l = LevelIndex(sizeQ, FindLevelsToDrop(out.pre["a"].deg - 1, TRUE))
              ELSE tr[1][1] = "FindLevelsToDrop" /\ l = sizeQ - 1 - tr[1][2]

\* a leveled multiplication that dropped one level and worked at l = sizeQ - 2 throughout
C14_Witness ==
    /\ out.op = "EvalMult" /\ out.res.status = "ok"
    /\ multTech = "HPSPOVERQLEVELED"
    /\ out.pre["a"].elems[1].limbs = SizeQM
    /\ out.res.trace[1] = <<"FindLevelsToDrop", 1>>
    /\ HasStep(out.res.trace, "DropToQl")
    /\ \A i \in LevelSteps(out.res.trace) : out.res.trace[i][2] = SizeQM - 2

\* C15: for every multiplicative depth, key-switch flag and parameter set,
\* FindLevelsToDrop returns the estimate clamped to [0, totalLimbs - 1]: 0 for a
\* negative estimate, totalLimbs - 1 for an estimate above it; and every number
\* of levels an operation dropped is in that range.
C15_LevelsToDropClamped ==
    /\ \A depth \in 0 .. MaxDeg + 1, keySwitch \in BOOLEAN :
          LET levels == LevelsEstimate(depth, keySwitch)
              r == FindLevelsToDrop(depth, keySwitch)
          IN  /\ r \in 0 .. SizeQM - 1
              /\ levels < 0 => r = 0
              /\ levels > SizeQM - 1 => r = SizeQM - 1
              /\ levels \in 0 .. SizeQM - 1 => r = levels
    /\ \A i \in 1 .. Len(out.res.trace) :
          out.res.trace[i][1] = "FindLevelsToDrop" => out.res.trace[i][2] \in 0 .. SizeQM - 1

\* RelinearizeCore on a ciphertext whose estimate exceeds totalLimbs - 1 dropped
\* totalLimbs - 1 levels
C15_Witness ==
    /\ out.op = "RelinearizeCore"
    /\ multTech = "HPSPOVERQLEVELED"
    /\ LevelsEstimate(out.pre["a"].deg - 1, Len(out.pre["a"].elems) = 2) > SizeQM - 1
    /\ out.res.trace[1] = <<"FindLevelsToDrop", SizeQM - 1>>

C23_SquareEqualsMultBySelf ==
    (out.op = "EvalSquare" /\ out.res.status = "ok")
    => LET ct == out.pre["a"]
           m == EvalMult(ct, ct)
           sizeQ == ct.elems[1].limbs
           l == MultLevel(sizeQ, ct.deg - 1)
           cv1 == [i \in 1 .. Len(ct.elems) |-> ConvertFirst(ct.elems[i], sizeQ, l)]
           cv2 == [i \in 1 .. Len(ct.elems) |-> ConvertSecond(ct.elems[i], sizeQ, l)]
       IN  /\ m.status = "ok"
           /\ out.res.ret.elems = m.ret.elems
           /\ Len(ct.elems) = 2 => KaratsubaProduct(cv1, cv2) = TensorProduct(cv1, cv2)

\* the square of a three-element ciphertext with non-zero residues, by the half loop
C23_Witness ==
    /\ out.op = "EvalSquare"
    /\ out.res.status = "ok"
    /\ multTech \in {"HPS", "BEHZ"}
    /\ Len(out.pre["a"].elems) = 3
    /\ \A i \in 1 .. 3 : out.pre["a"].elems[i].val # 0
    /\ Len(out.res.ret.elems) = 5

\* C24: RelinearizeCore fails, and returns no ciphertext, when it is handed four
\* or more elements, directly or as the product of a keyed multiplication or
\* squaring: no element is dropped without being key-switched.
C24_OversizedRelinearizationFails ==
    LET handed == CASE out.op = "RelinearizeCore" -> Len(out.pre["a"].elems)
                    [] out.op \in {"EvalMultKeyed", "EvalMultInPlace"} ->
                          IF SameCryptoParameters(out.pre["a"], out.pre[out.args[2]])
                          THEN Len(out.pre["a"].elems) + Len(out.pre[out.args[2]].elems) - 1
                          ELSE 0
                    [] out.op \in {"EvalSquareKeyed", "EvalSquareInPlace"} ->
                          2 * Len(out.pre["a"].elems) - 1
                    [] OTHER -> 0
    IN  handed >= 4 => out.res.status = "throw"

\* the number of steps of the given kind in a trace
CountSteps(tr, kind) == Cardinality({i \in 1 .. Len(tr) : tr[i][1] = kind})

\* C25: RelinearizeCore key-switches exactly one element and combines the pair
\* (a, b) it gets by the input size: for two elements it key-switches element 1,
\* adds a to element 0 and replaces element 1 by b; for three elements it
\* key-switches element 2, adds a to element 0 and adds b to element 1.
C25_OneElementKeySwitched ==
    (Succeeded({"RelinearizeCore"}) /\ Len(out.pre["a"].elems) \in {2, 3})
    => LET old == out.pre["a"].elems
           new == cts["a"].elems
           last == old[Len(old)]
           switched == IF IsLeveledMax(old[1].limbs) THEN (last.val + 1) % ValMod ELSE last.val
           a == (switched * 2) % ValMod
           b == switched
       IN  /\ CountSteps(out.res.trace, "KeySwitchCore") = 1
           /\ Len(new) = 2
           /\ new[1].val = (old[1].val + a) % ValMod
           /\ new[2].val = IF Len(old) = 2 THEN b ELSE (old[2].val + b) % ValMod

\* RelinearizeCore returned on three elements whose last two values differ and
\* whose key-switched part b is not zero
C25_Witness ==
    /\ Succeeded({"RelinearizeCore"})
    /\ Len(out.pre["a"].elems) = 3
    /\ out.pre["a"].elems[2].val # out.pre["a"].elems[3].val
    /\ cts["a"].elems[2].val # out.pre["a"].elems[2].val

\* C26: in RelinearizeCore, EvalFastRotationPrecompute and EvalFastRotation the
\* scale-and-round before key switching and the re-expansion after it go
\* together and happen only when limbs are dropped: when FindLevelsToDrop
\* returns 0, or the ciphertext is not at the maximum level, or the technique is
\* not HPSPOVERQLEVELED, none of the three performs either step.
C26_DropAndExpandOnlyWhenDropped ==
    LET ct == out.pre["a"]
        tr == out.res.trace
        sizeQ == ct.elems[1].limbs
        dropsLimbs(keySwitch) == /\ IsLeveledMax(sizeQ)
                                 /\ FindLevelsToDrop(ct.deg - 1, keySwitch) > 0
    IN  /\ Succeeded({"RelinearizeCore"})
           => /\ HasStep(tr, "ScaleAndRound") <=> HasStep(tr, "ExpandCRTBasisQlHat")
              /\ ~dropsLimbs(Len(ct.elems) = 2) => ~HasStep(tr, "ScaleAndRound")
        /\ Succeeded({"EvalFastRotationPrecompute"})
           => (~dropsLimbs(TRUE) => ~HasStep(tr, "ScaleAndRound"))
        /\ (Succeeded({"EvalFastRotation"}) /\ fastDigits.limbs = sizeQ)
           => ~HasStep(tr, "ExpandCRTBasisQlHat")

\* C30: under a technique and an encryption method Compress supports, and for
\* every towersLeft, Compress returns a new ciphertext of min(current limbs,
\* towersLeft) limbs, reached by exactly max(0, current limbs - towersLeft)
\* rounds of DropLastElementAndScale, and leaves its input as it was.
C30_CompressKeepsMinLimbs ==
    (out.op = "Compress" /\ multTech \notin {"BEHZ", "HPS"} /\ encTech # "EXTENDED")
    => LET current == out.pre["a"].elems[1].limbs
           towersLeft == out.idx
       IN  /\ out.res.status = "ok"
           /\ \A i \in 1 .. Len(out.res.ret.elems) :
                 out.res.ret.elems[i].limbs = Min(current, towersLeft)
           /\ Len(out.res.ret.elems) = Len(out.pre["a"].elems)
           /\ out.res.trace = << <<"DropLastElementAndScale", Max(0, current - towersLeft)>> >>
           /\ out.res.arg = out.pre["a"]

\* C6: after RelinearizeCore, and hence after the keyed and in-place multiplications
\* and squarings and after EvalAutomorphism, the ciphertext has exactly two elements.
C6_RelinearizedHasTwoElements ==
    Succeeded({"RelinearizeCore", "EvalMultKeyed", "EvalMultInPlace", "EvalSquareKeyed",
               "EvalSquareInPlace", "EvalAutomorphism"})
    => Len(Produced.elems) = 2

\* RelinearizeCore returned normally on a ciphertext of three elements
C6_Witness ==
    /\ Succeeded({"RelinearizeCore"})
    /\ Len(out.pre["a"].elems) = 3
    /\ Len(cts["a"].elems) = 2

C8_ProductSizeAndDegree ==
    /\ Succeeded({"EvalMult"}) =>
          /\ Len(out.res.ret.elems) = Len(out.pre[out.args[1]].elems) + Len(out.pre[out.args[2]].elems) - 1
          /\ out.res.ret.deg = Max(out.pre[out.args[1]].deg, out.pre[out.args[2]].deg) + 1
          /\ ~HasStep(out.res.trace, "KeySwitchCore")
    /\ Succeeded({"EvalSquare"}) =>
          /\ Len(out.res.ret.elems) = 2 * Len(out.pre[out.args[1]].elems) - 1
          /\ out.res.ret.deg = out.pre[out.args[1]].deg + 1
          /\ ~HasStep(out.res.trace, "KeySwitchCore")

\* a product of a three-element and a two-element ciphertext of different degrees
C8_Witness ==
    /\ Succeeded({"EvalMult"})
    /\ Len(out.pre["a"].elems) = 3
    /\ out.args[2] = "b"
    /\ out.pre["a"].deg = 2
    /\ Len(out.res.ret.elems) = 4
    /\ out.res.ret.deg = 3

\* C9: EvalMult and its keyed and in-place forms fail with the parameter-mismatch
\* error whenever the operands do not share crypto parameters, before any basis
\* conversion or multiplication.
C9_ParameterMismatchThrowsFirst ==
    (/\ out.op \in {"EvalMult", "EvalMultKeyed", "EvalMultInPlace"}
     /\ out.pre[out.args[1]].params # out.pre[out.args[2]].params)
    => /\ out.res.status = "throw"
       /\ out.res.err = "crypto parameters are not the same"
       /\ out.res.trace = << >>
       /\ cts = out.pre

\* the in-place form was called with an operand of other crypto parameters
C9_Witness ==
    /\ out.op = "EvalMultInPlace"
    /\ out.args[2] = "c"
    /\ out.res.status = "throw"
    /\ out.res.err = "crypto parameters are not the same"

\* ================================================== CKKS bootstrapping
\* ------------------------------------------------------------ arithmetic
RECURSIVE Log2(_)
Log2(n) == IF n <= 1 THEN 0 ELSE 1 + Log2(n \div 2)

CeilDiv(a, b) == (a + b - 1) \div b

\* ceil(sqrt(n))
CeilSqrt(n) == CHOOSE r \in 0 .. n : r * r >= n /\ (r = 0 \/ (r - 1) * (r - 1) < n)

\* ReduceRotation(index, slots): the residue of index in [0, slots)
ReduceRotation(index, slots) == index % slots

\* SelectLayers(logSlots, budget) = {layers, rows, rem}
RECURSIVE SelectRows(_, _, _, _)
SelectRows(logSlots, budget, layers, rows) ==
    LET rem == logSlots - rows * layers
        dim == IF rem # 0 THEN rows + 1 ELSE rows
    IN  IF dim = budget \/ rows = 0 THEN <<layers, rows, rem>>
        ELSE SelectRows(logSlots, budget, layers, rows - 1)

SelectLayers(logSlots, budget) ==
    LET layers == CeilDiv(logSlots, budget)
        rows == logSlots \div layers
        rem == logSlots % layers
        dim == IF rem # 0 THEN rows + 1 ELSE rows
    IN  IF dim < budget
        THEN SelectRows(logSlots, budget, layers - 1, logSlots \div (layers - 1))
        ELSE <<layers, rows, rem>>

\* GetCollapsedFFTParams(slots, levelBudget, dim1), as a record over CKKS_BOOT_PARAMS
GetCollapsedFFTParams(slots, levelBudget, dim1) ==
    LET logSlots == IF slots < 3 THEN 1 ELSE Log2(slots)
        dims == SelectLayers(logSlots, levelBudget)
        layersCollapse == dims[1]
        remCollapse == dims[3]
        numRotations == Pow(2, layersCollapse + 1) - 1
        numRotationsRem == Pow(2, remCollapse + 1) - 1
        g == IF dim1 = 0 \/ dim1 > numRotations
             THEN (IF numRotations > 7 THEN Pow(2, (layersCollapse \div 2) + 2)
                   ELSE Pow(2, (layersCollapse \div 2) + 1))
             ELSE dim1
        gRem == IF remCollapse = 0 THEN 0
                ELSE IF numRotationsRem > 7 THEN Pow(2, (remCollapse \div 2) + 2)
                ELSE Pow(2, (remCollapse \div 2) + 1)
    IN  [LEVEL_BUDGET |-> levelBudget, LAYERS_COLL |-> layersCollapse, LAYERS_REM |-> remCollapse,
         NUM_ROTATIONS |-> numRotations, BABY_STEP |-> (numRotations + 1) \div g, GIANT_STEP |-> g,
         NUM_ROTATIONS_REM |-> numRotationsRem,
         BABY_STEP_REM |-> IF remCollapse = 0 THEN 0 ELSE (numRotationsRem + 1) \div gRem,
         GIANT_STEP_REM |-> gRem]

\* --------------------------------------------------- rotation index lists
\* a null shared_ptr<CKKSBootstrapPrecom>
NullPrecom == [null |-> TRUE]

SeqToSet(q) == {q[i] : i \in 1 .. Len(q)}

\* for (j = 1; j < M / m; j <<= 1) indexList.emplace_back(j * slots), m = 4 * slots
SparseRotationIndices(slots, M) ==
    IF 4 * slots # M
    THEN [k \in 1 .. Log2(M \div (4 * slots)) |-> Pow(2, k - 1) * slots]
    ELSE << >>

FindLinearTransformRotationIndices(precom, slots, M) ==
    LET g == IF precom.m_dim1 = 0 THEN CeilSqrt(slots) ELSE precom.m_dim1
        h == CeilDiv(slots, g)
    IN  [i \in 1 .. g |-> i]
        \o [k \in 1 .. Max(h - 2, 0) |-> g * (k + 1)]
        \o SparseRotationIndices(slots, M)

\* one level of a collapsed FFT: g inner rotations j * scalingFactor, j from halfRots,
\* reduced modulo inMod, then b outer rotations (g * i) * scalingFactor modulo M / 4
LevelRotationIndices(numRotations, b, g, scalingFactor, inMod, M) ==
    LET halfRots == 1 - (numRotations + 1) \div 2
    IN  [jj \in 1 .. g |-> ReduceRotation((halfRots + jj - 1) * scalingFactor, inMod)]
        \o [ii \in 1 .. b |-> ReduceRotation((g * (ii - 1)) * scalingFactor, M \div 4)]

\* levels s = levelBudget - 1 down to flagRem of the encoding
RECURSIVE CoeffsToSlotsLevels(_, _, _, _, _)
CoeffsToSlotsLevels(p, s, flagRem, slots, M) ==
    IF s < flagRem THEN << >>
    ELSE LevelRotationIndices(p.NUM_ROTATIONS, p.BABY_STEP, p.GIANT_STEP,
                              Pow(2, (s - flagRem) * p.LAYERS_COLL + p.LAYERS_REM), slots, M)
         \o CoeffsToSlotsLevels(p, s - 1, flagRem, slots, M)

FindCoeffsToSlotsRotationIndices(precom, slots, M) ==
    LET p == precom.m_paramsEnc
        flagRem == IF p.LAYERS_REM = 0 THEN 0 ELSE 1
    IN  CoeffsToSlotsLevels(p, p.LEVEL_BUDGET - 1, flagRem, slots, M)
        \o (IF flagRem = 1
            THEN LevelRotationIndices(p.NUM_ROTATIONS_REM, p.BABY_STEP_REM, p.GIANT_STEP_REM, 1, slots, M)
            ELSE << >>)
        \o SparseRotationIndices(slots, M)

\* levels s = 0 .. levelBudget - flagRem - 1 of the decoding
RECURSIVE SlotsToCoeffsLevels(_, _, _, _)
SlotsToCoeffsLevels(p, s, flagRem, M) ==
    IF s >= p.LEVEL_BUDGET - flagRem THEN << >>
    ELSE LevelRotationIndices(p.NUM_ROTATIONS, p.BABY_STEP, p.GIANT_STEP,
                              Pow(2, s * p.LAYERS_COLL), M \div 4, M)
         \o SlotsToCoeffsLevels(p, s + 1, flagRem, M)

FindSlotsToCoeffsRotationIndices(precom, slots, M) ==
    LET p == precom.m_paramsDec
        flagRem == IF p.LAYERS_REM = 0 THEN 0 ELSE 1
    IN  SlotsToCoeffsLevels(p, 0, flagRem, M)
        \o (IF flagRem = 1
            THEN LevelRotationIndices(p.NUM_ROTATIONS_REM, p.BABY_STEP_REM, p.GIANT_STEP_REM,
                                      Pow(2, (p.LEVEL_BUDGET - flagRem) * p.LAYERS_COLL), M \div 4, M)
            ELSE << >>)
        \o SparseRotationIndices(slots, M)

IsLTBootstrap(precom) ==
    precom.m_paramsEnc.LEVEL_BUDGET = 1 /\ precom.m_paramsDec.LEVEL_BUDGET = 1

\* std::set built from the list: ascending, without duplicates
RECURSIVE SortedSeq(_)
SortedSeq(S) ==
    IF S = {} THEN << >>
    ELSE LET m == CHOOSE x \in S : \A y \in S : x <= y
         IN  <<m>> \o SortedSeq(S \ {m})

\* variant of FindBootstrapRotationIndices without the lookup of the slot count
FindBootstrapRotationIndicesUnchecked(map, slots, M) == [found |-> TRUE, list |-> << >>]

\* the indices of the transforms of the mode, one list after the other
FullIndexList(precom, slots, M) ==
    IF IsLTBootstrap(precom)
    THEN FindLinearTransformRotationIndices(precom, slots, M)
    ELSE FindCoeffsToSlotsRotationIndices(precom, slots, M)
         \o FindSlotsToCoeffsRotationIndices(precom, slots, M)

\* variant of UniqueIndices that returns the list as it was collected
AllIndices(fullIndexList, M) == fullIndexList

\* std::set<uint32_t> s(begin, end); s.erase(0); s.erase(M / 4); the vector of s
UniqueIndices(fullIndexList, M) == SortedSeq((SeqToSet(fullIndexList) \ {0}) \ {M \div 4})

\* [found, list]: found is FALSE when the map has no entry for slots (the call throws)
FindBootstrapRotationIndices(map, slots, M) ==
    IF slots \notin DOMAIN map
    THEN [found |-> FALSE, list |-> << >>]
    ELSE [found |-> TRUE, list |-> UniqueIndices(FullIndexList(map[slots], slots, M), M)]

\* -------------------------------------- rotations an evaluation requests
\* EvalLinearTransform: hoisted rotations j = 1 .. bStep - 1 and the rotations
\* bStep * j of the inner sums j = 1 .. gStep - 1
EvalLinearTransformRotations(precom, slots) ==
    LET bStep == IF precom.m_dim1 = 0 THEN CeilSqrt(slots) ELSE precom.m_dim1
        gStep == CeilDiv(slots, bStep)
    IN  {j : j \in 1 .. bStep - 1} \cup {bStep * j : j \in 1 .. gStep - 1}

\* the non-zero entries of rot_in[s] and of rot_out[s][1 .. b - 1] of one level
EvalLevelRotations(numRotations, b, g, scalingFactor, inMod, M) ==
    ({ReduceRotation((j - ((numRotations + 1) \div 2) + 1) * scalingFactor, inMod) : j \in 0 .. g - 1}
     \cup {ReduceRotation((g * i) * scalingFactor, M \div 4) : i \in 1 .. b - 1}) \ {0}

EvalCoeffsToSlotsRotations(precom, slots, M) ==
    LET p == precom.m_paramsEnc
        flagRem == IF p.LAYERS_REM # 0 THEN 1 ELSE 0
        stop == IF p.LAYERS_REM # 0 THEN 0 ELSE -1
    IN  UNION {EvalLevelRotations(p.NUM_ROTATIONS, p.BABY_STEP, p.GIANT_STEP,
                                  Pow(2, (s - flagRem) * p.LAYERS_COLL + p.LAYERS_REM), slots, M) :
               s \in stop + 1 .. p.LEVEL_BUDGET - 1}
        \cup (IF flagRem = 1
              THEN EvalLevelRotations(p.NUM_ROTATIONS_REM, p.BABY_STEP_REM, p.GIANT_STEP_REM, 1, slots, M)
              ELSE {})

EvalSlotsToCoeffsRotations(precom, slots, M) ==
    LET p == precom.m_paramsDec
        flagRem == IF p.LAYERS_REM # 0 THEN 1 ELSE 0
    IN  UNION {EvalLevelRotations(p.NUM_ROTATIONS, p.BABY_STEP, p.GIANT_STEP,
                                  Pow(2, s * p.LAYERS_COLL), M \div 4, M) :
               s \in 0 .. p.LEVEL_BUDGET - flagRem - 1}
        \cup (IF flagRem = 1
              THEN EvalLevelRotations(p.NUM_ROTATIONS_REM, p.BABY_STEP_REM, p.GIANT_STEP_REM,
                                      Pow(2, (p.LEVEL_BUDGET - flagRem) * p.LAYERS_COLL), M \div 4, M)
              ELSE {})

\* EvalRotate(raised, j * slots) for (j = 1; j < N / (2 * slots); j <<= 1), N = M / 2
PartialSumRotations(slots, M) ==
    {Pow(2, k) * slots : k \in {e \in 0 .. LogM : Pow(2, e) < (M \div 2) \div (2 * slots)}}

\* every rotation index one EvalBootstrap call asks a key for
BootstrapRotations(precom, slots, M) ==
    LET transforms == IF IsLTBootstrap(precom)
                      THEN EvalLinearTransformRotations(precom, slots)
                      ELSE EvalCoeffsToSlotsRotations(precom, slots, M)
                           \cup EvalSlotsToCoeffsRotations(precom, slots, M)
    IN  IF slots = M \div 4 THEN transforms
        ELSE PartialSumRotations(slots, M) \cup transforms \cup {slots}

\* ------------------------------------------------ CKKS: bootstrapping calls
\* a CKKS ciphertext: limbs of its elements, GetSlots(), and the identity of its values
CkksCt(l, n, v) == [limbs |-> l, slots |-> n, val |-> v]
NoCkksCt == [limbs |-> 0, slots |-> 0, val |-> "none"]

\* read is the set of precomputed matrices the call read: "none", "LT"
\* (m_U0hatTPre, m_U0Pre) or "FFT" (m_U0hatTPreFFT, m_U0PreFFT)
BootRes(st, e, n, ret, req, corr) ==
    [status |-> st, err |-> e, errArg |-> n, ret |-> ret, requested |-> req, correction |-> corr,
     read |-> "none"]

\* the matrices the transforms of EvalBootstrap read for a precomputation
MatrixSet(precom) == IF IsLTBootstrap(precom) THEN "LT" ELSE "FFT"

\* the matrices EvalBootstrapSetup (with precompute) or EvalBootstrapPrecompute
\* filled for a precomputation
FilledSet(precom) == IF precom.precomputed THEN MatrixSet(precom) ELSE "none"

\* an outcome of a call that read the matrices of precom
Reading(res, precom) == [res EXCEPT !.read = MatrixSet(precom)]

\* round(num / den) for num >= 0
RoundDiv(num, den) == (2 * num + den) \div (2 * den)

\* round(-0.265 * (2 * log2(M / 2) + log2(slots)) + 19.1), clamped to [7, 13]
DefaultCorrectionFactor(slots, M) ==
    LET x == 2 * Log2(M \div 2) + Log2(slots)
        milli == 19100 - 265 * x
        tmp == IF milli < 0 THEN 0 ELSE RoundDiv(milli, 1000)
    IN  IF tmp < 7 THEN 7 ELSE IF tmp > 13 THEN 13 ELSE tmp

IsComposite(cfg) == cfg.scalTech \in {"COMPOSITESCALINGAUTO", "COMPOSITESCALINGMANUAL"}

\* variant of ClampBudget that resets every entry out of range to 1
ClampBudgetToOne(x, logSlots) == IF x > logSlots \/ x < 1 THEN 1 ELSE x

\* if (newBudget > logSlots) newBudget = logSlots; if (newBudget < 1) newBudget = 1
ClampBudget(x, logSlots) ==
    LET lowered == IF x > logSlots THEN logSlots ELSE x
    IN  IF lowered < 1 THEN 1 ELSE lowered

\* a double scale factor as the exponents of its three factors: pre = q / 2^round(log2 q),
\* k = K_SPARSE and q / scalingFactor(0)
Scale(pre, k, qOverSf) == [pre |-> pre, k |-> k, qOverSf |-> qOverSf]

\* the exponent e of k = (SPARSE_TERNARY ? K_SPARSE : 1.0): k is 1.0 for any other key
KExp(cfg, e) == IF cfg.secretKeyDist = "SPARSE_TERNARY" THEN e ELSE 0

\* scaleEnc and scaleDec of EvalBootstrapSetup: pre is 1.0 under a composite
\* degree, scaleEnc = pre / k, scaleDec = q / scalingFactor(0) or 1 / pre
SetupScales(cfg) ==
    LET composite == cfg.compositeDegree > 1
        pre == IF composite THEN 0 ELSE 1
    IN  [scaleEnc |-> Scale(pre, KExp(cfg, -1), 0),
         scaleDec |-> IF composite THEN Scale(0, 0, 1) ELSE Scale(-pre, 0, 0)]

\* scaleEnc and scaleDec of EvalBootstrapPrecompute: scaleEnc = 1.0 / k or
\* pre / k, scaleDec = k * q / scalingFactor(0) or 1 / pre
PrecomputeScales(cfg) ==
    LET composite == cfg.compositeDegree > 1
    IN  [scaleEnc |-> IF composite THEN Scale(0, KExp(cfg, -1), 0) ELSE Scale(1, KExp(cfg, -1), 0),
         scaleDec |-> IF composite THEN Scale(0, KExp(cfg, 1), 1) ELSE Scale(-1, 0, 0)]

\* the precomputed matrices, as what determines them besides the slot count and
\* the parameters of the entry: the set written, the packing, the two scale
\* factors and the two levels. approxModDepth is a function of the secret key
\* distribution alone and is kept as that distribution
Matrices(cfg, paramsEnc, paramsDec, slots, scales) ==
    LET L0eff == IF cfg.scalTech = "FLEXIBLEAUTOEXT" THEN L0 - 1 ELSE L0
        isLTBootstrap == paramsEnc.LEVEL_BUDGET = 1 /\ paramsDec.LEVEL_BUDGET = 1
    IN  [set |-> IF isLTBootstrap THEN "LT" ELSE "FFT",
         isSparse |-> CycloOrder # 4 * slots,
         scaleEnc |-> scales.scaleEnc,
         scaleDec |-> scales.scaleDec,
         lEnc |-> Uint32(L0eff - cfg.compositeDegree * (paramsEnc.LEVEL_BUDGET + 1)),
         lDec |-> [L0 |-> L0eff, compositeDegree |-> cfg.compositeDegree,
                   approxModDepth |-> cfg.secretKeyDist,
                   levelBudgets |-> paramsEnc.LEVEL_BUDGET + paramsDec.LEVEL_BUDGET]]

\* [status, err, map, cf]: the members after the call
EvalBootstrapSetup(map, cf, cfg, levelBudget, dim1, numSlots, correctionFactor, precompute) ==
    IF cfg.ksTech # "HYBRID"
    THEN [status |-> "throw", err |-> "only supported for the Hybrid key switching method",
          errArg |-> 0, map |-> map, cf |-> cf]
    ELSE LET M == CycloOrder
             slots == IF numSlots = 0 THEN M \div 4 ELSE numSlots
             newCf == IF correctionFactor = 0
                      THEN (IF cfg.scalTech \in {"FLEXIBLEAUTO", "FLEXIBLEAUTOEXT"} \/ IsComposite(cfg)
                            THEN DefaultCorrectionFactor(slots, M) ELSE 9)
                      ELSE correctionFactor
             logSlots == IF Log2(slots) = 0 THEN 1 ELSE Log2(slots)
             clamp(x) == ClampBudget(x, logSlots)
             paramsEnc == GetCollapsedFFTParams(slots, clamp(levelBudget[1]), dim1[1])
             paramsDec == GetCollapsedFFTParams(slots, clamp(levelBudget[2]), dim1[2])
             precom == [null |-> FALSE, m_slots |-> slots, m_dim1 |-> dim1[1],
                        m_paramsEnc |-> paramsEnc,
                        m_paramsDec |-> paramsDec,
                        precomputed |-> precompute,
                        matrices |-> IF precompute
                                     THEN {Matrices(cfg, paramsEnc, paramsDec, slots, SetupScales(cfg))}
                                     ELSE {}]
         IN  [status |-> "ok", err |-> "", errArg |-> 0, map |-> (slots :> precom) @@ map, cf |-> newCf]

\* m_bootPrecomMap[slots] inserts a null pointer for an unknown slot count, and
\* the dereference that follows is undefined: the call does not return
EvalBootstrapPrecompute(map, cfg, numSlots) ==
    IF cfg.ksTech # "HYBRID"
    THEN [status |-> "throw", err |-> "only supported for the Hybrid key switching method",
          errArg |-> 0, map |-> map]
    ELSE LET M == CycloOrder
             slots == IF numSlots = 0 THEN M \div 4 ELSE numSlots
         IN  IF slots \notin DOMAIN map
             THEN [status |-> "crash", err |-> "", errArg |-> 0, map |-> (slots :> NullPrecom) @@ map]
             ELSE LET precom == map[slots]
                      dim1 == <<precom.m_dim1, precom.m_paramsDec.GIANT_STEP>>
                      newBudget == <<precom.m_paramsEnc.LEVEL_BUDGET, precom.m_paramsDec.LEVEL_BUDGET>>
                      paramsEnc == GetCollapsedFFTParams(slots, newBudget[1], dim1[1])
                      paramsDec == GetCollapsedFFTParams(slots, newBudget[2], dim1[2])
                      after == [precom EXCEPT
                                  !.m_paramsEnc = paramsEnc,
                                  !.m_paramsDec = paramsDec,
                                  !.precomputed = TRUE,
                                  !.matrices = {Matrices(cfg, paramsEnc, paramsDec, slots,
                                                         PrecomputeScales(cfg))}]
                  IN  [status |-> "ok", err |-> "", errArg |-> 0, map |-> (slots :> after) @@ map]

\* ------------------------------------------------------- parallel loops
\* A parallel loop is a function from the values of its loop variable to the
\* set of elements the iteration writes; an element is <<s, index>>, the
\* element index of row s of the array (s = 0 when the array has one row).

\* variant of DiagonalWrites whose giant steps advance by one element
DiagonalWritesUnitStride(j, bStep, slots) ==
    {<<0, j + i>> : i \in {i \in 0 .. bStep - 1 : j + i < slots}}

\* EvalLinearTransformPrecompute, iteration j of the loop over the giant steps:
\* result[bStep * j + i] for i < bStep with bStep * j + i < slots
DiagonalWrites(j, bStep, slots) ==
    {<<0, bStep * j + i>> : i \in {i \in 0 .. bStep - 1 : bStep * j + i < slots}}

\* EvalCoeffsToSlotsPrecompute / EvalSlotsToCoeffsPrecompute, iteration j of the
\* loop of level s and baby step i: coeff[s][g * i + j] and result[s][g * i + j]
PlaintextWrites(s, i, j, g, numRotations) ==
    IF g * i + j # numRotations THEN {<<s, g * i + j>>} ELSE {}

\* the loops over j of the levels of one collapsed precomputation; rem is the
\* level of the remainder (stop of the encoding, levelBudget - flagRem of the decoding)
PlaintextLoops(p, levels, rem) ==
    {[j \in 0 .. p.GIANT_STEP - 1 |-> PlaintextWrites(s, i, j, p.GIANT_STEP, p.NUM_ROTATIONS)] :
        s \in levels, i \in 0 .. p.BABY_STEP - 1}
    \cup (IF p.LAYERS_REM # 0
          THEN {[j \in 0 .. p.GIANT_STEP_REM - 1 |->
                    PlaintextWrites(rem, i, j, p.GIANT_STEP_REM, p.NUM_ROTATIONS_REM)] :
                    i \in 0 .. p.BABY_STEP_REM - 1}
          ELSE {})

\* the hoisted automorphisms: fastRotation[j] for j < g, and for the remainder
HoistedLoops(p) ==
    {[j \in 0 .. p.GIANT_STEP - 1 |-> {<<0, j>>}]}
    \cup (IF p.LAYERS_REM # 0 THEN {[j \in 0 .. p.GIANT_STEP_REM - 1 |-> {<<0, j>>}]} ELSE {})

\* the parallel loops the precomputation and the evaluation for precom run
ParallelLoops(precom, slots) ==
    IF IsLTBootstrap(precom)
    THEN LET bStep == IF precom.m_dim1 = 0 THEN CeilSqrt(slots) ELSE precom.m_dim1
             gStep == CeilDiv(slots, bStep)
         IN  {[j \in 0 .. gStep - 1 |-> DiagonalWrites(j, bStep, slots)],
              \* fastRotation[j - 1] = EvalFastRotationExt(ct, j, digits, true)
              [j \in 1 .. bStep - 1 |-> {<<0, j - 1>>}]}
    ELSE LET enc == precom.m_paramsEnc
             dec == precom.m_paramsDec
             flagEnc == IF enc.LAYERS_REM # 0 THEN 1 ELSE 0
             flagDec == IF dec.LAYERS_REM # 0 THEN 1 ELSE 0
         IN  PlaintextLoops(enc, flagEnc .. enc.LEVEL_BUDGET - 1, 0)
             \cup PlaintextLoops(dec, 0 .. dec.LEVEL_BUDGET - flagDec - 1, dec.LEVEL_BUDGET - flagDec)
             \cup HoistedLoops(enc) \cup HoistedLoops(dec)

\* no two iterations of the loop write the same element
RaceFree(loop) ==
    \A j1, j2 \in DOMAIN loop : j1 # j2 => loop[j1] \cap loop[j2] = {}

\* ------------------------------------- baby-step/giant-step diagonal loops
\* bStep = (m_dim1 == 0) ? ceil(sqrt(slots)) : m_dim1, gStep = ceil(slots / bStep),
\* and the size bStep - 1 of the vector fastRotation of EvalLinearTransform
BabyGiantSteps(precom, slots) ==
    LET bStep == IF precom.m_dim1 = 0 THEN CeilSqrt(slots) ELSE precom.m_dim1
    IN  [bStep |-> bStep, gStep |-> CeilDiv(slots, bStep), fastRotation |-> bStep - 1]

\* EvalLinearTransformPrecompute: the iterations (j, i) that write result[bStep * j + i],
\* each as <<j, i, index>>
PrecomputeDiagonals(bStep, gStep, slots) ==
    {<<q[1], q[2], bStep * q[1] + q[2]>> :
        q \in {r \in (0 .. gStep - 1) \X (0 .. bStep - 1) : bStep * r[1] + r[2] < slots}}

\* variant of ApplyDiagonals whose inner loop has no bound check
ApplyDiagonalsUnguarded(bStep, gStep, slots) ==
    {<<q[1], q[2], bStep * q[1] + q[2]>> : q \in (0 .. gStep - 1) \X (0 .. bStep - 1)}

\* EvalLinearTransform: the reads of A, each as <<j, i, index>>: A[bStep * j] of every
\* giant step j, and A[bStep * j + i] with fastRotation[i - 1] for 1 <= i < bStep
\* when bStep * j + i < slots
ApplyDiagonals(bStep, gStep, slots) ==
    {<<j, 0, bStep * j>> : j \in 0 .. gStep - 1}
    \cup {<<q[1], q[2], bStep * q[1] + q[2]>> :
             q \in {r \in (0 .. gStep - 1) \X (1 .. bStep - 1) : bStep * r[1] + r[2] < slots}}

\* no keys: rot is the set of rotation indices with a key, conj tells whether
\* there is a conjugation key and conjIndex is the map index it is stored under
\* conjAuto is the automorphism the conjugation key switches from
NoKeys == [rot |-> {}, conj |-> FALSE, conjIndex |-> 0, conjAuto |-> 0]

\* ConjugateKeyGen: index = 2 * N - 1, the automorphism applied to the secret
\* key the conjugation key switches from
ConjugateKeyGenIndex(N) == 2 * N - 1

\* (*evalKeys)[M - 1] = conjKey
ConjugateKeyIndex(M) == M - 1

\* Conjugate: evalKeyMap.at(2 * N - 1), N the ring dimension of the ciphertext
ConjugateLookupIndex(N) == 2 * N - 1

\* the returned key map: a key per index of FindBootstrapRotationIndices, and the
\* conjugation key; indexList is the list the rotation keys were generated for
EvalBootstrapKeyGen(map, cfg, slots0) ==
    IF cfg.ksTech # "HYBRID"
    THEN [status |-> "throw", err |-> "only supported for the Hybrid key switching method",
          errArg |-> 0, keys |-> NoKeys, indexList |-> << >>]
    ELSE LET M == CycloOrder
             slots == IF slots0 = 0 THEN M \div 4 ELSE slots0
             indices == FindBootstrapRotationIndices(map, slots, M)
         IN  IF ~indices.found
             THEN [status |-> "throw", err |-> "Precomputations for slots were not generated",
                   errArg |-> slots, keys |-> NoKeys, indexList |-> << >>]
             ELSE [status |-> "ok", err |-> "", errArg |-> 0,
                   keys |-> [rot |-> SeqToSet(indices.list), conj |-> TRUE,
                             conjIndex |-> ConjugateKeyIndex(M),
                             conjAuto |-> ConjugateKeyGenIndex(M \div 2)],
                   indexList |-> indices.list]

\* variant of NoProgress that lets an equal limb count through
NoProgressStrict(bootstrappingNumTowers, initSizeQ) == bootstrappingNumTowers < initSizeQ

\* if (bootstrappingNumTowers <= initSizeQ) return ciphertext->Clone()
NoProgress(bootstrappingNumTowers, initSizeQ) == bootstrappingNumTowers <= initSizeQ

\* variant of ConjugateAutomorphism with the index of a rotation by one slot
ConjugateAutomorphismRotation(N) == 5

\* Conjugate: rcv[i].AutomorphismTransform(2 * N - 1, vec)
ConjugateAutomorphism(N) == 2 * N - 1

\* Conjugate(ciphertext, evalKeyMap) on a ciphertext that carries the
\* automorphism auto of the input plaintext: the key is looked up with at(),
\* which throws std::out_of_range when the map has no key under 2N - 1; the
\* result carries the composed automorphism, keyAuto is the key's automorphism
Conjugate(ciphertext, auto, keys, N) ==
    IF ~(keys.conj /\ keys.conjIndex = ConjugateLookupIndex(N))
    THEN [status |-> "throw", err |-> "std::out_of_range", errArg |-> ConjugateLookupIndex(N),
          ret |-> NoCkksCt, auto |-> 0, keyAuto |-> 0]
    ELSE [status |-> "ok", err |-> "", errArg |-> 0,
          ret |-> CkksCt(ciphertext.limbs, ciphertext.slots, "conjugated"),
          auto |-> (auto * ConjugateAutomorphism(N)) % (2 * N), keyAuto |-> keys.conjAuto]

MinOf(S) == CHOOSE x \in S : \A y \in S : x <= y

\* EvalRotate / EvalFastRotationExt look the key of a rotation index up in the
\* key map of the context
MissingKeys(requested, keys) == requested \ keys.rot

\* EvalBootstrap with numIterations = 1, after the checks on the key switching
\* technique; towers is the limb count of ctxtDec when the pipeline completes.
\* The set holds every outcome the call can have.
BootstrapSingle(map, cf, cfg, keys, ciphertext, towers) ==
    LET M == CycloOrder
        slots == ciphertext.slots
        initSizeQ == ciphertext.limbs
        deg == cfg.deg
    IN  IF slots \notin DOMAIN map
        THEN {BootRes("throw", "Precomputations for slots were not generated", slots, NoCkksCt, {}, Uint32(0))}
        ELSE IF deg > cf /\ ~IsComposite(cfg)
        THEN {BootRes("throw", "Degree must be less than or equal to the correction factor", deg,
                      NoCkksCt, {}, Uint32(0))}
        ELSE
        LET precom == map[slots]
            correction == Uint32(cf - deg)
            sparse == slots # M \div 4
            partial == IF sparse THEN PartialSumRotations(slots, M) ELSE {}
            requested == BootstrapRotations(precom, slots, M)
            completed == Reading(IF NoProgress(towers, initSizeQ)
                                 THEN BootRes("ok", "", 0, ciphertext, requested, correction)
                                 ELSE BootRes("ok", "", 0, CkksCt(towers, slots, "bootstrapped"),
                                              requested, correction),
                                 precom)
        IN  IF MissingKeys(partial, keys) # {}
            THEN {BootRes("throw", "EvalKey for index is not found", MinOf(MissingKeys(partial, keys)),
                          NoCkksCt, partial, correction)}
            ELSE IF ~precom.precomputed /\ IsLTBootstrap(precom)
            \* EvalLinearTransform over an empty m_U0hatTPre: slots = A.size() = 0
            THEN {Reading(BootRes("throw", "Precomputations for slots were not generated", 0,
                                  NoCkksCt, partial, correction), precom)}
            ELSE IF MissingKeys(requested, keys) # {}
            THEN {BootRes("throw", "EvalKey for index is not found", MinOf(MissingKeys(requested, keys)),
                          NoCkksCt, requested, correction)}
            ELSE IF ~precom.precomputed
            \* EvalCoeffsToSlots reads A[s][G] of an empty m_U0hatTPreFFT
            THEN {Reading(BootRes("crash", "", 0, NoCkksCt, requested, correction), precom), completed}
            ELSE {completed}

\* ModReduceInternalInPlace(ct, compositeDegree) on the result of a bootstrap
ModReduced(res, cfg) == [res EXCEPT !.ret.limbs = res.ret.limbs - cfg.compositeDegree]

\* variant of IterationsSupported that accepts every iteration count
IterationsUnchecked(numIterations) == TRUE

\* if (numIterations != 1 && numIterations != 2) OPENFHE_THROW(...)
IterationsSupported(numIterations) == numIterations = 1 \/ numIterations = 2

EvalBootstrap(map, cf, cfg, keys, ciphertext, numIterations, towers) ==
    IF cfg.ksTech # "HYBRID"
    THEN {BootRes("throw", "only supported for the Hybrid key switching method", 0, NoCkksCt, {}, Uint32(0))}
    ELSE IF ~IterationsSupported(numIterations)
    THEN {BootRes("throw", "only supported for 1 or 2 iterations", numIterations, NoCkksCt, {}, Uint32(0))}
    ELSE IF numIterations = 1
    THEN BootstrapSingle(map, cf, cfg, keys, ciphertext, towers)
    ELSE
    LET initSizeQ == ciphertext.limbs
        second(first) ==
            LET ctInitialBootstrap == ModReduced(first, cfg)
                bootstrappingSizeQ == ctInitialBootstrap.ret.limbs
                ctBootstrappingError == CkksCt(initSizeQ, ciphertext.slots, "error")
            IN  IF bootstrappingSizeQ < 1
                THEN {[BootRes("throw", "DropLastElement", 0, NoCkksCt, first.requested, first.correction)
                          EXCEPT !.read = first.read]}
                ELSE IF NoProgress(bootstrappingSizeQ, initSizeQ)
                THEN {[BootRes("ok", "", 0, ciphertext, first.requested, first.correction)
                          EXCEPT !.read = first.read]}
                ELSE {IF e.status # "ok"
                      THEN [e EXCEPT !.requested = e.requested \cup first.requested, !.read = first.read]
                      ELSE [BootRes("ok", "", 0,
                                    CkksCt(Min(bootstrappingSizeQ, ModReduced(e, cfg).ret.limbs),
                                           ciphertext.slots, "bootstrapped"),
                                    e.requested \cup first.requested, first.correction)
                               EXCEPT !.read = first.read] :
                      e \in BootstrapSingle(map, cf, cfg, keys, ctBootstrappingError, towers)}
    IN  UNION {IF first.status # "ok" THEN {first} ELSE second(first) :
               first \in BootstrapSingle(map, cf, cfg, keys, ciphertext, towers)}

\* ------------------------------------------------- CKKS: the state machine
\* slot counts of the ciphertexts: sparse packing and full packing
SlotCounts == {CycloOrder \div 8, CycloOrder \div 4}

\* (levelBudget, dim1) arguments of EvalBootstrapSetup
SetupProfiles ==
    {[levelBudget |-> <<1, 1>>, dim1 |-> <<0, 0>>],
     [levelBudget |-> <<1, 1>>, dim1 |-> <<CycloOrder \div 4 + 1, 0>>],
     [levelBudget |-> <<0, 5>>, dim1 |-> <<2, 2>>]}

\* correctionFactor arguments of EvalBootstrapSetup (0 asks for the default)
CorrectionFactors == {0, 8}

\* crypto parameters: key switching and scaling technique, composite degree,
\* deg = round(log2(q / 2^p)) of EvalBootstrap, and the secret key distribution
BootCfgs ==
    {[ksTech |-> "HYBRID", scalTech |-> "FIXEDMANUAL", compositeDegree |-> 1, deg |-> 9,
      secretKeyDist |-> "UNIFORM_TERNARY"],
     [ksTech |-> "HYBRID", scalTech |-> "FIXEDMANUAL", compositeDegree |-> 1, deg |-> 9,
      secretKeyDist |-> "SPARSE_TERNARY"],
     [ksTech |-> "HYBRID", scalTech |-> "COMPOSITESCALINGAUTO", compositeDegree |-> 2, deg |-> 14,
      secretKeyDist |-> "UNIFORM_TERNARY"],
     [ksTech |-> "HYBRID", scalTech |-> "COMPOSITESCALINGAUTO", compositeDegree |-> 2, deg |-> 14,
      secretKeyDist |-> "SPARSE_TERNARY"],
     [ksTech |-> "BV", scalTech |-> "FIXEDMANUAL", compositeDegree |-> 1, deg |-> 9,
      secretKeyDist |-> "UNIFORM_TERNARY"]}

\* EvalBootstrap calls: the limbs of the input (at its last level, or one level
\* below the top), the limbs the pipeline ends with, and numIterations; one call
\* has a numIterations that is rejected
BootCalls ==
    {[initSizeQ |-> i, towers |-> t, numIterations |-> n] :
        i \in {1, L0 - 1}, t \in 1 .. L0, n \in {1, 2}}
    \cup {[initSizeQ |-> 1, towers |-> 1, numIterations |-> 3]}

BootOut(opName, n, input, numIterations, towers, res, keys) ==
    [op |-> opName, slots |-> n, input |-> input, numIterations |-> numIterations, towers |-> towers,
     status |-> res.status, err |-> res.err, errArg |-> res.errArg,
     ret |-> IF "ret" \in DOMAIN res THEN res.ret ELSE NoCkksCt,
     requested |-> IF "requested" \in DOMAIN res THEN res.requested ELSE {},
     correction |-> IF "correction" \in DOMAIN res THEN res.correction ELSE Uint32(0),
     read |-> IF "read" \in DOMAIN res THEN res.read ELSE "none",
     indexList |-> IF "indexList" \in DOMAIN res THEN res.indexList ELSE << >>,
     auto |-> IF "auto" \in DOMAIN res THEN res.auto ELSE 0,
     keyAuto |-> IF "keyAuto" \in DOMAIN res THEN res.keyAuto ELSE 0,
     keys |-> keys, pre |-> [map |-> m_bootPrecomMap, cf |-> m_correctionFactor]]

\* the rotation keys the crypto context holds when EvalBootstrap runs: those of
\* an EvalBootstrapKeyGen for the slot count after its last setup, or none
ContextKeys(map, cfg, slots, keysGenerated) ==
    IF keysGenerated THEN EvalBootstrapKeyGen(map, cfg, slots).keys ELSE NoKeys

InitBoot ==
    /\ InitBFV
    /\ multTech = "HPS"
    /\ encTech = "STANDARD"
    /\ m_bootPrecomMap = << >>
    /\ m_correctionFactor = 0
    /\ bootCfg \in BootCfgs
    /\ setupFor = {}
    /\ bootOut = [op |-> "none", status |-> "ok"]

\* a call that ran into undefined behaviour does not return: nothing follows it
Running == bootOut.status # "crash"

EvalBootstrapSetupAct ==
    /\ Running
    /\ \E profile \in SetupProfiles, numSlots \in {0, CycloOrder \div 8},
          correctionFactor \in CorrectionFactors, precompute \in BOOLEAN :
          LET slots == IF numSlots = 0 THEN CycloOrder \div 4 ELSE numSlots
              o == EvalBootstrapSetup(m_bootPrecomMap, m_correctionFactor, bootCfg, profile.levelBudget,
                                      profile.dim1, numSlots, correctionFactor, precompute)
          IN  /\ m_bootPrecomMap' = o.map
              /\ m_correctionFactor' = o.cf
              /\ setupFor' = setupFor \cup {slots}
              /\ bootOut' = BootOut("EvalBootstrapSetup", slots, NoCkksCt, 0, 0, o, NoKeys)
    /\ UNCHANGED <<bootCfg, bfvVars>>

EvalBootstrapPrecomputeAct ==
    /\ Running
    /\ \E numSlots \in {0} \cup SlotCounts :
          LET slots == IF numSlots = 0 THEN CycloOrder \div 4 ELSE numSlots
              o == EvalBootstrapPrecompute(m_bootPrecomMap, bootCfg, numSlots)
          IN  /\ m_bootPrecomMap' = o.map
              /\ bootOut' = BootOut("EvalBootstrapPrecompute", slots, NoCkksCt, 0, 0, o, NoKeys)
    /\ UNCHANGED <<m_correctionFactor, bootCfg, setupFor, bfvVars>>

EvalBootstrapKeyGenAct ==
    /\ Running
    /\ \E slots0 \in {0} \cup SlotCounts :
          LET slots == IF slots0 = 0 THEN CycloOrder \div 4 ELSE slots0
              o == EvalBootstrapKeyGen(m_bootPrecomMap, bootCfg, slots0)
          IN  bootOut' = BootOut("EvalBootstrapKeyGen", slots, NoCkksCt, 0, 0, o, o.keys)
    /\ UNCHANGED <<m_bootPrecomMap, m_correctionFactor, bootCfg, setupFor, bfvVars>>

EvalBootstrapAct ==
    /\ Running
    /\ \E slots \in SlotCounts, call \in BootCalls, keysGenerated \in BOOLEAN :
          LET ciphertext == CkksCt(call.initSizeQ, slots, "input")
              keys == ContextKeys(m_bootPrecomMap, bootCfg, slots, keysGenerated)
          IN  \E o \in EvalBootstrap(m_bootPrecomMap, m_correctionFactor, bootCfg, keys,
                                     ciphertext, call.numIterations, call.towers) :
                  bootOut' = BootOut("EvalBootstrap", slots, ciphertext, call.numIterations,
                                     call.towers, o, keys)
    /\ UNCHANGED <<m_bootPrecomMap, m_correctionFactor, bootCfg, setupFor, bfvVars>>

\* Conjugate on an input ciphertext, or on the ciphertext the preceding
\* Conjugate returned (numIterations counts the applications, 1 or 2)
ConjugateAct ==
    /\ Running
    /\ \E slots \in SlotCounts, keysGenerated \in BOOLEAN, again \in BOOLEAN :
          LET chained == /\ again
                         /\ bootOut.op = "Conjugate"
                         /\ bootOut.status = "ok"
                         /\ bootOut.numIterations = 1
                         /\ bootOut.slots = slots
              ciphertext == IF chained THEN bootOut.ret ELSE CkksCt(L0, slots, "input")
              auto == IF chained THEN bootOut.auto ELSE 1
              keys == ContextKeys(m_bootPrecomMap, bootCfg, slots, keysGenerated)
              o == Conjugate(ciphertext, auto, keys, CycloOrder \div 2)
          IN  /\ again => chained
              /\ bootOut' = BootOut("Conjugate", slots, ciphertext, IF chained THEN 2 ELSE 1, 0, o, keys)
    /\ UNCHANGED <<m_bootPrecomMap, m_correctionFactor, bootCfg, setupFor, bfvVars>>

NextBoot ==
    \/ EvalBootstrapSetupAct
    \/ EvalBootstrapPrecomputeAct
    \/ EvalBootstrapKeyGenAct
    \/ EvalBootstrapAct
    \/ ConjugateAct

SpecBoot == InitBoot /\ [][NextBoot]_vars

\* ------------------------------- both schemes: the precondition failures
\* a BFV context and a CKKS context side by side. With a CKKS context that is
\* not HYBRID every BFV parameter set is explored; with a HYBRID one the BFV
\* context is the HPS / STANDARD one, for which Compress is not supported
InitPre ==
    /\ InitBFV
    /\ m_bootPrecomMap = << >>
    /\ m_correctionFactor = 0
    /\ bootCfg \in BootCfgs
    /\ bootCfg.ksTech = "HYBRID" =>
          /\ bootCfg.scalTech = "FIXEDMANUAL" /\ bootCfg.secretKeyDist = "UNIFORM_TERNARY"
          /\ multTech = "HPS" /\ encTech = "STANDARD"
    /\ setupFor = {}
    /\ bootOut = [op |-> "none", status |-> "ok"]

NextPre ==
    \/ CompressAct
    \/ EvalBootstrapSetupAct
    \/ EvalBootstrapPrecomputeAct
    \/ EvalBootstrapKeyGenAct
    \/ EvalBootstrapAct

SpecPre == InitPre /\ [][NextPre]_vars

\* the members of the bootstrapping object and the caller's ciphertexts
Stored == <<m_bootPrecomMap, m_correctionFactor, cts>>

\* a step that is a call of a BFV operation, and one that is a bootstrapping
\* call: each call writes the record of the last call (a repeated call that
\* leaves every variable as it was is a stuttering step)
BfvCall == out' # out \/ cts' # cts
BootCall == bootOut' # bootOut

\* C12: a call whose precondition fails (Compress under BEHZ, HPS or EXTENDED; a
\* bootstrapping call under a key switching technique other than HYBRID;
\* EvalBootstrap with numIterations outside {1, 2}) throws the error of that
\* precondition before any step, and the precomputation map, the correction
\* factor and all ciphertexts are after the call what they were before it.
C12_PreconditionFailuresChangeNothing ==
    [][/\ (/\ BfvCall /\ out'.op = "Compress"
           /\ (multTech \in {"BEHZ", "HPS"} \/ encTech = "EXTENDED"))
          => /\ out'.res.status = "throw"
             /\ out'.res.err = IF multTech \in {"BEHZ", "HPS"}
                               THEN "BFV Compress is not currently supported for BEHZ or HPS"
                               ELSE "BFV Compress is not currently supported for the EXTENDED encryption method"
             /\ out'.res.trace = << >>
             /\ out'.res.ret = NoCt
             /\ UNCHANGED Stored
       /\ (BootCall /\ bootCfg.ksTech # "HYBRID")
          => /\ bootOut'.status = "throw"
             /\ bootOut'.err = "only supported for the Hybrid key switching method"
             /\ bootOut'.ret = NoCkksCt
             /\ bootOut'.requested = {}
             /\ bootOut'.keys = NoKeys
             /\ UNCHANGED Stored
       /\ (/\ BootCall /\ bootOut'.op = "EvalBootstrap"
           /\ bootCfg.ksTech = "HYBRID" /\ bootOut'.numIterations \notin {1, 2})
          => /\ bootOut'.status = "throw"
             /\ bootOut'.err = "only supported for 1 or 2 iterations"
             /\ bootOut'.ret = NoCkksCt
             /\ bootOut'.requested = {}
             /\ UNCHANGED Stored
      ]_vars

\* after a setup, an EvalBootstrap with numIterations = 3 was rejected, and so
\* was a Compress under HPS
C12_Witness ==
    /\ out.op = "Compress" /\ out.res.status = "throw" /\ multTech = "HPS"
    /\ bootOut.op = "EvalBootstrap" /\ bootOut.numIterations = 3 /\ bootOut.status = "throw"
    /\ bootOut.err = "only supported for 1 or 2 iterations"
    /\ m_bootPrecomMap # << >>
    /\ m_bootPrecomMap = bootOut.pre.map

\* ------------------------------------------------------ CKKS: properties
BootM == CycloOrder

\* C2: every non-zero rotation index an EvalBootstrap call requests is in the
\* list FindBootstrapRotationIndices returns for the same slot count and the
\* same stored parameters
C2_RequestedRotationsInKeyList ==
    (bootOut.op = "EvalBootstrap" /\ bootOut.slots \in DOMAIN m_bootPrecomMap)
        => bootOut.requested \ {0}
               \subseteq SeqToSet(FindBootstrapRotationIndices(m_bootPrecomMap, bootOut.slots, BootM).list)

\* C3: the map has an entry for n only if EvalBootstrapSetup was called for n,
\* and no entry is a null pointer
C3_EntriesOnlyFromSetup ==
    \A n \in DOMAIN m_bootPrecomMap : n \in setupFor /\ ~m_bootPrecomMap[n].null

\* C4: EvalBootstrapSetup or EvalBootstrapPrecompute for slot count B leaves
\* what EvalBootstrap reads for another slot count A (its map entry and the
\* correction factor) as it was
C4_OtherSlotCountUntouched ==
    (bootOut.op \in {"EvalBootstrapSetup", "EvalBootstrapPrecompute"}
     /\ DOMAIN bootOut.pre.map \ {bootOut.slots} # {})
        => /\ \A A \in DOMAIN bootOut.pre.map \ {bootOut.slots} :
                  A \in DOMAIN m_bootPrecomMap /\ m_bootPrecomMap[A] = bootOut.pre.map[A]
           /\ m_correctionFactor = bootOut.pre.cf

\* slot counts given to EvalBootstrapSetup in the check of the stored budgets:
\* the default, a single slot, two slots, and the sparse and full packings
BudgetSlots == {0, 1, 2} \cup SlotCounts

\* C16: after EvalBootstrapSetup the stored encode and decode budgets are in
\* [1, max(1, floor(log2(slots)))]: an entry above log2(slots) is lowered to it,
\* an entry of 0 is raised to 1, and a single-slot setup gets budget 1.
C16_StoredBudgetsClamped ==
    /\ \A n \in DOMAIN m_bootPrecomMap :
          ~m_bootPrecomMap[n].null =>
              /\ m_bootPrecomMap[n].m_paramsEnc.LEVEL_BUDGET \in 1 .. Max(1, Log2(n))
              /\ m_bootPrecomMap[n].m_paramsDec.LEVEL_BUDGET \in 1 .. Max(1, Log2(n))
    /\ bootCfg.ksTech = "HYBRID" =>
          \A profile \in SetupProfiles, numSlots \in BudgetSlots :
              LET slots == IF numSlots = 0 THEN CycloOrder \div 4 ELSE numSlots
                  hi == Max(1, Log2(slots))
                  want(x) == IF x > hi THEN hi ELSE IF x < 1 THEN 1 ELSE x
                  precom == EvalBootstrapSetup(m_bootPrecomMap, m_correctionFactor, bootCfg,
                                               profile.levelBudget, profile.dim1, numSlots, 0, FALSE).map[slots]
              IN  /\ precom.m_paramsEnc.LEVEL_BUDGET = want(profile.levelBudget[1])
                  /\ precom.m_paramsDec.LEVEL_BUDGET = want(profile.levelBudget[2])

\* a setup with levelBudget {0, 5}: the encode budget was raised to 1 and the
\* decode budget lowered to log2(slots)
C16_Witness ==
    /\ bootOut.op = "EvalBootstrapSetup" /\ bootOut.status = "ok"
    /\ m_bootPrecomMap[bootOut.slots].m_dim1 = 2
    /\ m_bootPrecomMap[bootOut.slots].m_paramsEnc.LEVEL_BUDGET = 1
    /\ m_bootPrecomMap[bootOut.slots].m_paramsDec.LEVEL_BUDGET = Log2(bootOut.slots)
    /\ Log2(bootOut.slots) > 1

\* C17: the transforms of EvalBootstrap read the matrix set that the preceding
\* EvalBootstrapSetup or EvalBootstrapPrecompute filled for the slot count: the
\* direct (LT) matrices exactly when both stored budgets are 1, the collapsed
\* FFT matrices otherwise.
C17_ReadsTheFilledMatrices ==
    (bootOut.op = "EvalBootstrap" /\ bootOut.read # "none")
    => LET precom == bootOut.pre.map[bootOut.slots]
       IN  /\ bootOut.read = FilledSet(precom)
           /\ bootOut.read = "LT" <=> (/\ precom.m_paramsEnc.LEVEL_BUDGET = 1
                                        /\ precom.m_paramsDec.LEVEL_BUDGET = 1)

\* C18: the index list a successful EvalBootstrapKeyGen generates rotation keys
\* for has no duplicate and holds neither 0 nor M/4, the returned keys are those
\* of the list, and there is one conjugation key, stored under M - 1, which is
\* the index 2N - 1 Conjugate looks up.
C18_KeyListUniqueAndConjugationKey ==
    (bootOut.op = "EvalBootstrapKeyGen" /\ bootOut.status = "ok")
    => LET list == bootOut.indexList
           N == BootM \div 2
       IN  /\ \A i, j \in 1 .. Len(list) : i # j => list[i] # list[j]
           /\ \A i \in 1 .. Len(list) : list[i] # 0 /\ list[i] # BootM \div 4
           /\ bootOut.keys.rot = SeqToSet(list)
           /\ bootOut.keys.conj
           /\ bootOut.keys.conjIndex = BootM - 1
           /\ bootOut.keys.conjIndex = ConjugateLookupIndex(N)

\* a key generation whose collected list had a duplicate and a 0
C18_Witness ==
    /\ bootOut.op = "EvalBootstrapKeyGen"
    /\ bootOut.status = "ok"
    /\ LET full == FullIndexList(bootOut.pre.map[bootOut.slots], bootOut.slots, BootM)
       IN  /\ Cardinality(SeqToSet(full)) < Len(full)
           /\ 0 \in SeqToSet(full)
           /\ bootOut.indexList # << >>

\* C19: in every parallel loop that the precomputation and the evaluation run
\* for a stored slot count (diagonals per giant step, plaintexts per rotation
\* index, hoisted rotations per baby step), two iterations never write the
\* same element.
C19_ParallelIterationsWriteApart ==
    \A slots \in DOMAIN m_bootPrecomMap :
        ~m_bootPrecomMap[slots].null
        => \A loop \in ParallelLoops(m_bootPrecomMap[slots], slots) : RaceFree(loop)

\* a completed EvalBootstrap over precomputed diagonals, computed by a loop
\* with at least two iterations that each write
C19_Witness ==
    /\ bootOut.op = "EvalBootstrap"
    /\ bootOut.status = "ok"
    /\ bootOut.read = "LT"
    /\ bootOut.slots \in DOMAIN m_bootPrecomMap
    /\ LET precom == m_bootPrecomMap[bootOut.slots]
       IN  /\ precom.precomputed
           /\ \A loop \in ParallelLoops(precom, bootOut.slots) :
                 \E j1, j2 \in DOMAIN loop : j1 # j2 /\ loop[j1] # {} /\ loop[j2] # {}

\* C22: a completed Conjugate switches with a key generated for the very
\* automorphism it applies, the automorphism of index 2N - 1; one application
\* leaves the ciphertext under that automorphism and the second application,
\* on the result of the first, leaves it under the identity.
C22_ConjugateTwiceIsIdentity ==
    (bootOut.op = "Conjugate" /\ bootOut.status = "ok")
    => LET N == BootM \div 2
       IN  /\ bootOut.keyAuto = ConjugateAutomorphism(N)
           /\ bootOut.numIterations = 1 => bootOut.auto = 2 * N - 1
           /\ bootOut.numIterations = 2 => bootOut.auto = 1

\* the second of two chained conjugations has completed
C22_Witness ==
    /\ bootOut.op = "Conjugate"
    /\ bootOut.status = "ok"
    /\ bootOut.numIterations = 2
    /\ bootOut.input.val = "conjugated"
    /\ bootOut.keys.conj

\* C27: EvalBootstrapPrecompute on an entry left by EvalBootstrapSetup with
\* precompute = false leaves the entry that the same EvalBootstrapSetup with
\* precompute = true builds: the same budgets and baby-step/giant-step
\* parameters, the same scale factors and levels, the same matrix set, for
\* every composite degree and secret key distribution.
C27_PrecomputeCompletesSetup ==
    (bootOut.op = "EvalBootstrapPrecompute" /\ bootOut.status = "ok")
    => \A profile \in SetupProfiles, numSlots \in {0, CycloOrder \div 8} :
          LET slots == IF numSlots = 0 THEN CycloOrder \div 4 ELSE numSlots
              setup(precompute) ==
                  EvalBootstrapSetup(<< >>, 0, bootCfg, profile.levelBudget, profile.dim1,
                                     numSlots, 0, precompute).map[slots]
          IN  (slots = bootOut.slots /\ bootOut.pre.map[slots] = setup(FALSE))
              => m_bootPrecomMap[slots] = setup(TRUE)

\* the accesses of the set that touch index d
Touching(accesses, d) == {v \in accesses : v[3] = d}

\* C28: for every entry of the direct linear transform, the loops of
\* EvalLinearTransformPrecompute and of EvalLinearTransform visit each diagonal
\* index d in [0, slots) exactly once, every index of the precomputed
\* diagonals they use is in [0, slots), and every index of a hoisted rotation
\* is inside the vector of the hoisted rotations.
C28_EachDiagonalOnceAndInBounds ==
    \A slots \in DOMAIN m_bootPrecomMap :
        (~m_bootPrecomMap[slots].null /\ IsLTBootstrap(m_bootPrecomMap[slots]))
        => LET steps == BabyGiantSteps(m_bootPrecomMap[slots], slots)
               written == PrecomputeDiagonals(steps.bStep, steps.gStep, slots)
               read == ApplyDiagonals(steps.bStep, steps.gStep, slots)
           IN  /\ \A d \in 0 .. slots - 1 :
                     /\ Cardinality(Touching(written, d)) = 1
                     /\ Cardinality(Touching(read, d)) = 1
               /\ \A v \in written \cup read : v[3] \in 0 .. slots - 1
               /\ \A v \in read : v[2] >= 1 => v[2] - 1 \in 0 .. steps.fastRotation - 1

\* a completed EvalBootstrap over precomputed diagonals whose slot count is not
\* a multiple of the baby step, so that the last giant step is cut short
C28_Witness ==
    /\ bootOut.op = "EvalBootstrap"
    /\ bootOut.status = "ok"
    /\ bootOut.read = "LT"
    /\ bootOut.slots \in DOMAIN m_bootPrecomMap
    /\ LET precom == m_bootPrecomMap[bootOut.slots]
           steps == BabyGiantSteps(precom, bootOut.slots)
       IN  /\ precom.precomputed
           /\ steps.gStep > 1
           /\ bootOut.slots % steps.bStep # 0

\* the last EvalBootstrap call passed its checks and reached the raising of the modulus
ReachedModulusRaising ==
    /\ bootOut.op = "EvalBootstrap"
    /\ bootCfg.ksTech = "HYBRID"
    /\ IterationsSupported(bootOut.numIterations)
    /\ bootOut.slots \in DOMAIN bootOut.pre.map
    /\ bootOut.err # "Degree must be less than or equal to the correction factor"

\* C29: whenever EvalBootstrap reaches the raising of the modulus, deg is at most
\* the correction factor, under every scaling technique, so that the unsigned
\* exponent m_correctionFactor - deg is their difference and has not wrapped.
C29_CorrectionExponentDoesNotWrap ==
    ReachedModulusRaising
    => /\ bootCfg.deg <= bootOut.pre.cf
       /\ Int32(bootOut.correction) = bootOut.pre.cf - bootCfg.deg

\* limb count the bootstrapping of the last EvalBootstrap call achieved:
\* bootstrappingNumTowers, or bootstrappingSizeQ of the iterative branch
Achieved ==
    IF bootOut.numIterations = 1 THEN bootOut.towers
    ELSE (IF bootOut.towers <= bootOut.input.limbs THEN bootOut.input.limbs ELSE bootOut.towers)
         - bootCfg.compositeDegree

\* C5: an EvalBootstrap that returns normally returns the input itself when the
\* achieved limb count is not greater than the input's, and a ciphertext with
\* strictly more limbs than the input otherwise
C5_NoProgressEscape ==
    (bootOut.op = "EvalBootstrap" /\ bootOut.status = "ok" /\ bootOut.numIterations \in {1, 2})
        => IF Achieved <= bootOut.input.limbs
           THEN bootOut.ret = bootOut.input
           ELSE bootOut.ret.limbs > bootOut.input.limbs

C5_Witness ==
    /\ bootOut.op = "EvalBootstrap" /\ bootOut.status = "ok" /\ bootOut.numIterations = 2
    /\ Achieved > bootOut.input.limbs
    /\ bootOut.ret.limbs > bootOut.input.limbs

\* the last call was a single-iteration EvalBootstrap or an EvalBootstrapKeyGen
\* for a slot count EvalBootstrapSetup was never called for
NeverSetUpCall ==
    /\ \/ bootOut.op = "EvalBootstrap" /\ bootOut.numIterations = 1
       \/ bootOut.op = "EvalBootstrapKeyGen"
    /\ bootOut.slots \notin setupFor

\* the call failed with the error naming the slot count, produced nothing and
\* left the map as it was
FailedNamingSlots ==
    /\ bootOut.status = "throw"
    /\ bootOut.err = "Precomputations for slots were not generated"
    /\ bootOut.errArg = bootOut.slots
    /\ bootOut.ret = NoCkksCt
    /\ bootOut.op = "EvalBootstrapKeyGen" => bootOut.keys = NoKeys
    /\ m_bootPrecomMap = bootOut.pre.map

\* C10 as stated: EvalBootstrap (single iteration) and EvalBootstrapKeyGen for a
\* slot count that was never set up fail with the error naming the slot count,
\* produce no ciphertext or keys and leave the map unchanged
C10_NeverSetUpFailsNamingSlots == NeverSetUpCall => FailedNamingSlots

\* C10 amended: the same, for crypto parameters with HYBRID key switching (any
\* other technique is rejected first, with an error that names no slot count)
C10_NeverSetUpFailsNamingSlotsHybrid ==
    (NeverSetUpCall /\ bootCfg.ksTech = "HYBRID") => FailedNamingSlots

C10_Witness ==
    NeverSetUpCall /\ bootCfg.ksTech = "HYBRID" /\ FailedNamingSlots /\ setupFor # {}

====
